---- MODULE Spec2Model ----
(***************************************************************************)
(* Model of the market-data aggregation subsystem of bot.py: the per-      *)
(* exchange spot-symbol cache, the REST funding fetchers (Bybit, Bitget),  *)
(* the streaming monitors (Binance, OKX) and the calls that read them.     *)
(*                                                                         *)
(* Strings of the program are sequences of one-character strings, so that  *)
(* suffix tests, slicing and concatenation are computed as the code does.  *)
(* A coroutine is a frame (a record with its locals and its position);     *)
(* one action is the code that runs between two suspension points.         *)
(***************************************************************************)
EXTENDS Integers, Sequences, FiniteSets, TLC

VARIABLES
    SPOT_SYMBOL_CACHE,       \* exchange -> set of symbol keys        (bot.py:37)
    SPOT_SYMBOL_LAST_FETCH,  \* exchange -> time of the last store    (bot.py:38)
    clock,                   \* the value time.time() returns
    calls,                   \* caller -> frame of the call it is running
    lastRefresh,             \* history: exchange -> the get that refreshed last
    task,                    \* monitor -> its _task (0: None, k: the k-th run)
    runs,                    \* monitor -> the _run tasks created, in order
    mark_data,               \* BinanceWebSocketMonitor._mark_data
    ticker_volume,           \* BinanceWebSocketMonitor._ticker_volume
    funding_data,            \* OKXWebSocketMonitor._funding_data
    ticker_data,             \* OKXWebSocketMonitor._ticker_data
    subscribed_symbols,      \* OKXWebSocketMonitor._subscribed_symbols
    agg,                     \* the call of get_all_funding_rates in progress
    lastParsed,              \* history: monitor, stream -> key -> item parsed last
    returned,                \* history: the collector call that returned in the last step
    replaced,                \* history: the keys whose entry the last step replaced
    dropped,                 \* history: the last step received a message that raised
    outbound,                \* history: the subscribe messages the last step sent
    job                      \* the evaluation of a snapshot by a repeating job

cacheVars == <<SPOT_SYMBOL_CACHE, SPOT_SYMBOL_LAST_FETCH, lastRefresh>>
storeVars == <<mark_data, ticker_volume, funding_data, ticker_data, lastParsed>>
monVars == <<task, runs, subscribed_symbols, storeVars>>
stepVars == <<returned, replaced, dropped, outbound>>
vars == <<cacheVars, clock, calls, monVars, stepVars, agg, job>>

----------------------------------------------------------------------------
(* Bounds of the model *)

MaxList == 2         \* instruments in one listing response
StartTime == 3600    \* time.time() when the process starts
MaxTime == 7200      \* the clock stops here
TickStep == 3        \* seconds of the event loop's clock in one step of it
MaxSnapshot == 6     \* entries of a snapshot given to get_top_funding_rates
MaxBase == 3         \* characters of the name of a base asset
MaxStarts == 6       \* /start commands received in a behaviour

(* Program constants *)

SPOT_SYMBOL_TTL == 60 * 60
RECONNECT_DELAY == 5     \* await asyncio.sleep(5) in _run
GRACE_PERIOD == 3        \* await asyncio.sleep(3) in OKX get_snapshot
BATCH_SIZE == 50         \* range(0, len(args), 50) in _subscribe_to_channels

Exchanges == {"binance", "bybit", "bitget", "okx"}
\* The tasks that call into the subsystem: the two repeating jobs of a user.
Callers == {"periodic", "threshold"}
TickSteps == {SPOT_SYMBOL_TTL - 1, SPOT_SYMBOL_TTL}

----------------------------------------------------------------------------
(* Strings *)

USDT == <<"U", "S", "D", "T">>
BTC == <<"B", "T", "C">>
ETH == <<"E", "T", "H">>
Bases == {BTC, ETH}
Missing == <<"?">>           \* a field the payload does not carry

\* f"{base}/USDT:USDT"
CcxtSymbol(base) == base \o <<"/">> \o USDT \o <<":">> \o USDT

Keys == {CcxtSymbol(b) : b \in Bases}

\* s.endswith(suffix)
EndsWith(s, suffix) ==
    /\ Len(s) >= Len(suffix)
    /\ SubSeq(s, Len(s) - Len(suffix) + 1, Len(s)) = suffix

\* s[:-n]
DropLast(s, n) == SubSeq(s, 1, IF Len(s) > n THEN Len(s) - n ELSE 0)

\* s.split(ch)[0]
RECURSIVE SplitFirstFrom(_, _, _)
SplitFirstFrom(s, ch, i) ==
    IF i > Len(s) THEN s
    ELSE IF s[i] = ch THEN SubSeq(s, 1, i - 1)
    ELSE SplitFirstFrom(s, ch, i + 1)

SplitFirst(s, ch) == SplitFirstFrom(s, ch, 1)

----------------------------------------------------------------------------
(* Payload fields and dicts *)

\* A field of a JSON item: a numeric string (an integer stands for it: a rate
\* in units of 0.0001, a price, a volume or a time as the whole number), a
\* string that is no number, or a key the item does not carry.
Num(n) == [t |-> "num", n |-> n]
Text == [t |-> "text", n |-> 0]
Absent == [t |-> "absent", n |-> 0]

\* float(item[k]) and int(item[k]): KeyError on an absent key, ValueError on text.
Float(v) == [raise |-> v.t # "num", val |-> v.n]

\* float(item.get(k, 0)) and int(item.get(k, 0))
FloatGet(v) == IF v.t = "absent" THEN [raise |-> FALSE, val |-> 0] ELSE Float(v)

\* {} and d[k] = v
EmptyDict == <<>>
Put(d, k, v) == [x \in DOMAIN d \cup {k} |-> IF x = k THEN v ELSE d[x]]

----------------------------------------------------------------------------
(* Spot listing responses *)

\* The word each exchange uses for an actively tradable spot instrument.
ActiveStatus(e) ==
    CASE e = "binance" -> "TRADING"
      [] e = "bybit"   -> "Trading"
      [] e = "bitget"  -> "online"
      [] e = "okx"     -> "live"

SeqsUpTo(S, n) == UNION {[1..k -> S] : k \in 0..n}

Instrument(base, quote, status) == [base |-> base, quote |-> quote, status |-> status]

SpotInstruments(e) ==
    {Instrument(BTC, USDT, ActiveStatus(e)), Instrument(ETH, USDT, ActiveStatus(e)),
     Instrument(ETH, USDT, "halt"), Instrument(ETH, BTC, ActiveStatus(e)),
     Instrument(BTC, Missing, ActiveStatus(e))}

\* A listing names a base asset once.
Listings(e) ==
    {l \in SeqsUpTo(SpotInstruments(e), MaxList) :
        \A i, j \in 1..Len(l) : i # j => l[i].base # l[j].base}

\* kind: "neterr" the request raised; "unparsable" resp.json() raised;
\* "json" a JSON object, whose ok says that it carries the success code
\* (Binance: the 'symbols' key) and whose list is the instrument list.
SpotResponses(e) ==
    [kind : {"neterr", "unparsable"}, ok : {FALSE}, list : {<<>>}]
      \cup [kind : {"json"}, ok : {FALSE}, list : {<<>>}]
      \cup [kind : {"json"}, ok : {TRUE}, list : Listings(e)]

\* The responses, computed once.
SpotResponsesOf == [e \in Exchanges |-> SpotResponses(e)]

\* The refresh failed in the words of the spec: network, parse, non-success.
SpotFailure(resp) == resp.kind # "json" \/ ~resp.ok

\* The loop over the listing: [raise |-> a field was missing, symbols |-> set].
RECURSIVE SpotLoop(_, _, _, _)
SpotLoop(e, list, i, symbols) ==
    IF i > Len(list) THEN [raise |-> FALSE, symbols |-> symbols]
    ELSE LET s == list[i] IN
         IF s.quote = Missing THEN [raise |-> TRUE, symbols |-> symbols]
         ELSE IF s.quote = USDT /\ (e = "bybit" \/ s.status = ActiveStatus(e))
              THEN SpotLoop(e, list, i + 1, symbols \cup {CcxtSymbol(s.base)})
              ELSE SpotLoop(e, list, i + 1, symbols)

\* The body of the try block after the response arrived.
SpotParse(e, resp) ==
    IF resp.kind # "json" THEN [raise |-> TRUE, symbols |-> {}]
    ELSE IF e = "binance"
         THEN IF resp.ok THEN SpotLoop(e, resp.list, 1, {})
              ELSE [raise |-> TRUE, symbols |-> {}]       \* data['symbols']
         ELSE IF resp.ok THEN SpotLoop(e, resp.list, 1, {})
              ELSE [raise |-> FALSE, symbols |-> {}]      \* the if is skipped

----------------------------------------------------------------------------
(* Funding/ticker responses of the REST exchanges (Bybit, Bitget) *)

RestExchanges == {"bybit", "bitget"}

UMCBL == <<"_", "U", "M", "C", "B", "L">>
DMCBL == <<"_", "D", "M", "C", "B", "L">>
PERP == <<"P", "E", "R", "P">>

\* One item of the list: Bybit reads symbol, fundingRate, turnover24h (volume),
\* lastPrice (last) and nextFundingTime; Bitget reads symbol, fundingRate,
\* quoteVolume (volume) and last.
RestItem(symbol, fundingRate, volume, last, nextFundingTime) ==
    [symbol |-> symbol, fundingRate |-> fundingRate, volume |-> volume,
     last |-> last, nextFundingTime |-> nextFundingTime]

RestItems(e) ==
    IF e = "bybit"
    THEN {RestItem(BTC \o USDT, Num(5), Num(2000000), Num(65000), Num(1000)),
          RestItem(ETH \o USDT, Num(-3), Num(500000), Num(3000), Num(1000)),
          RestItem(ETH \o USDT, Text, Num(500000), Num(3000), Num(1000)),
          RestItem(BTC \o PERP, Num(1), Num(700000), Num(65000), Num(1000))}
    ELSE {RestItem(BTC \o USDT \o UMCBL, Num(5), Num(2000000), Num(65000), Absent),
          RestItem(ETH \o USDT \o UMCBL, Absent, Absent, Num(3000), Absent),
          RestItem(ETH \o USDT \o UMCBL, Num(-3), Num(500000), Absent, Absent),
          RestItem(BTC \o <<"U", "S", "D">> \o DMCBL, Num(1), Num(700000), Num(65000), Absent)}

\* A ticker list names a symbol once.
RestLists(e) ==
    {l \in SeqsUpTo(RestItems(e), MaxList) :
        \A i, j \in 1..Len(l) : i # j => l[i].symbol # l[j].symbol}

\* kind "neterr": the request raised; else an HTTP response with its status,
\* whose body is unparsable or a JSON object; ok: it carries the success code.
RestResponses(e) ==
    [kind : {"neterr"}, status : {0}, body : {"none"}, ok : {FALSE}, list : {<<>>}]
      \cup [kind : {"http"}, status : {500}, body : {"json"}, ok : {FALSE}, list : {<<>>}]
      \cup [kind : {"http"}, status : {200}, body : {"unparsable"}, ok : {FALSE}, list : {<<>>}]
      \cup [kind : {"http"}, status : {200}, body : {"json"}, ok : {FALSE}, list : {<<>>}]
      \cup [kind : {"http"}, status : {200}, body : {"json"}, ok : {TRUE}, list : RestLists(e)]

RestResponsesOf ==
    [e \in Exchanges |-> IF e \in RestExchanges THEN RestResponses(e) ELSE {}]

\* The symbol key of an item whose symbol field is s:
\* [skip |-> the item is passed over, key |-> key].
RestKeyOf(e, s) ==
    IF e = "bybit"
    THEN IF ~EndsWith(s, USDT) THEN [skip |-> TRUE, key |-> <<>>]
         ELSE [skip |-> FALSE, key |-> CcxtSymbol(DropLast(s, 4))]
    ELSE IF ~EndsWith(s, UMCBL) THEN [skip |-> TRUE, key |-> <<>>]
         ELSE LET pair == SplitFirst(s, "_") IN
              IF ~EndsWith(pair, USDT) THEN [skip |-> TRUE, key |-> <<>>]
              ELSE [skip |-> FALSE, key |-> CcxtSymbol(DropLast(pair, 4))]

\* The keys of the symbols the ticker items carry, computed once.
RestKeys ==
    [e \in RestExchanges |->
        [s \in {item.symbol : item \in RestItems(e)} |-> RestKeyOf(e, s)]]

RestKey(e, item) == RestKeys[e][item.symbol]

\* The entry built for an item: [raise |-> a conversion raised, entry |-> it].
RestEntry(e, item, key) ==
    LET rate == IF e = "bybit" THEN Float(item.fundingRate) ELSE FloatGet(item.fundingRate)
        volume == IF e = "bybit" THEN Float(item.volume) ELSE FloatGet(item.volume)
        price == Float(item.last)
        next == IF e = "bybit" THEN Float(item.nextFundingTime)
                ELSE [raise |-> FALSE, val |-> 0]
    IN [raise |-> rate.raise \/ volume.raise \/ price.raise \/ next.raise,
        entry |-> [symbol |-> key, rate |-> rate.val * 100, volume |-> volume.val,
                   price |-> price.val, next_funding |-> next.val]]

\* for item in data[...]: the loop from item i on, result being the dict so far.
RECURSIVE RestLoop(_, _, _, _, _, _)
RestLoop(e, use_spot_filter, spot_symbols, list, i, result) ==
    IF i > Len(list) THEN [raise |-> FALSE, result |-> result]
    ELSE LET k == RestKey(e, list[i]) IN
         IF k.skip \/ (use_spot_filter /\ k.key \notin spot_symbols)
         THEN RestLoop(e, use_spot_filter, spot_symbols, list, i + 1, result)
         ELSE LET b == RestEntry(e, list[i], k.key) IN
              IF b.raise THEN [raise |-> TRUE, result |-> result]
              ELSE RestLoop(e, use_spot_filter, spot_symbols, list, i + 1,
                            Put(result, k.key, b.entry))

\* A fetch that lets the error of its request escape instead of returning {}.
RestResult_Propagates(e, use_spot_filter, spot_symbols, resp) ==
    IF resp.kind = "neterr" \/ resp.body = "unparsable"
    THEN [raised |-> TRUE, result |-> EmptyDict]
    ELSE IF resp.status # 200 \/ ~resp.ok THEN [raised |-> FALSE, result |-> EmptyDict]
    ELSE LET r == RestLoop(e, use_spot_filter, spot_symbols, resp.list, 1, EmptyDict)
         IN [raised |-> r.raise, result |-> IF r.raise THEN EmptyDict ELSE r.result]

\* What get_<e>_funding_rates returns once the response arrived:
\* [raised |-> an exception left the function, result |-> the snapshot].
RestResult(e, use_spot_filter, spot_symbols, resp) ==
    IF resp.kind = "neterr" THEN [raised |-> FALSE, result |-> EmptyDict]   \* except
    ELSE IF resp.status # 200 THEN [raised |-> FALSE, result |-> EmptyDict] \* return {}
    ELSE IF resp.body = "unparsable" THEN [raised |-> FALSE, result |-> EmptyDict]
    ELSE IF ~resp.ok THEN [raised |-> FALSE, result |-> EmptyDict]          \* result = {}
    ELSE LET r == RestLoop(e, use_spot_filter, spot_symbols, resp.list, 1, EmptyDict)
         IN [raised |-> FALSE, result |-> IF r.raise THEN EmptyDict ELSE r.result]

----------------------------------------------------------------------------
(* Streaming monitors (Binance, OKX): payloads *)

Monitors == {"binance", "okx"}

USDC == <<"U", "S", "D", "C">>
SWAP == <<"-">> \o USDT \o <<"-", "S", "W", "A", "P">>
USD_SWAP == <<"-", "U", "S", "D", "-", "S", "W", "A", "P">>

\* An item of a stream message. Binance !markPrice@arr: s, r, p, T; Binance
\* !ticker@arr: s, q. OKX funding-rate: instId (s), fundingRate (r),
\* nextFundingTime (T); OKX tickers: instId (s), last (p), volCcy24h (q).
StreamItem(s, r, p, q, T) == [s |-> s, r |-> r, p |-> p, q |-> q, T |-> T]

\* The items of the funding stream of a monitor.
FundingItems(m) ==
    IF m = "binance"
    THEN {StreamItem(BTC \o USDT, Num(5), Num(65000), Absent, Num(1000)),
          StreamItem(BTC \o USDT, Num(-3), Num(64000), Absent, Num(2000)),
          StreamItem(ETH \o USDT, Absent, Num(3000), Absent, Num(1000)),
          StreamItem(ETH \o USDT, Text, Num(3000), Absent, Num(1000)),
          StreamItem(BTC \o USDC, Num(1), Num(65000), Absent, Num(1000))}
    ELSE {StreamItem(BTC \o SWAP, Num(5), Absent, Absent, Num(1000)),
          StreamItem(BTC \o SWAP, Num(-3), Absent, Absent, Num(2000)),
          StreamItem(BTC \o SWAP, Num(1), Absent, Absent, Absent)}

\* The items of the ticker stream of a monitor.
TickerItems(m) ==
    IF m = "binance"
    THEN {StreamItem(BTC \o USDT, Absent, Absent, Num(2000000), Absent),
          StreamItem(BTC \o USDT, Absent, Absent, Num(500000), Absent),
          StreamItem(ETH \o USDT, Absent, Absent, Text, Absent)}
    ELSE {StreamItem(BTC \o SWAP, Absent, Num(65000), Num(2000000), Absent),
          StreamItem(BTC \o SWAP, Absent, Num(64000), Absent, Absent),
          StreamItem(BTC \o SWAP, Absent, Absent, Num(500000), Absent)}

\* A message names a symbol once.
ItemLists(items) ==
    {l \in SeqsUpTo(items, MaxList) :
        \A i, j \in 1..Len(l) : i # j => l[i].s # l[j].s}

\* A text message: unparsable text, or an object of the funding stream or of
\* the ticker stream with its list of items.
StreamMessages(m) ==
    [stream : {"unparsable"}, data : {<<>>}]
      \cup [stream : {"funding"}, data : ItemLists(FundingItems(m))]
      \cup [stream : {"ticker"}, data : ItemLists(TickerItems(m))]

StreamMessagesOf == [m \in Monitors |-> StreamMessages(m)]

\* The symbol key of a stream item whose symbol field is s:
\* [skip |-> passed over, key |-> key].
StreamKeyOf(m, s) ==
    IF m = "binance"
    THEN IF ~EndsWith(s, USDT) THEN [skip |-> TRUE, key |-> <<>>]
         ELSE [skip |-> FALSE, key |-> CcxtSymbol(DropLast(s, 4))]
    ELSE [skip |-> FALSE, key |-> CcxtSymbol(SplitFirst(s, "-"))]

\* The keys of the symbols the stream items carry, computed once.
StreamKeys ==
    [m \in Monitors |->
        [s \in {item.s : item \in FundingItems(m) \cup TickerItems(m)} |->
            StreamKeyOf(m, s)]]

StreamKey(m, item) == StreamKeys[m][item.s]

\* The value stored with the rate left a fraction.
FundingEntry_Fraction(m, item) ==
    LET r == IF m = "binance" THEN FloatGet(item.r) ELSE Float(item.r)
        p == FloatGet(item.p)
        T == IF m = "binance" THEN FloatGet(item.T) ELSE Float(item.T)
    IN [raise |-> r.raise \/ T.raise \/ (m = "binance" /\ p.raise),
        entry |-> IF m = "binance"
                  THEN [rate |-> r.val, price |-> p.val, next_funding |-> T.val]
                  ELSE [rate |-> r.val, next_funding |-> T.val]]

\* The value stored for a funding item: [raise, entry].
FundingEntry(m, item) ==
    IF m = "binance"
    THEN LET r == FloatGet(item.r)
             p == FloatGet(item.p)
             T == FloatGet(item.T)
         IN [raise |-> r.raise \/ p.raise \/ T.raise,
             entry |-> [rate |-> r.val * 100, price |-> p.val, next_funding |-> T.val]]
    ELSE LET r == Float(item.r)
             T == Float(item.T)
         IN [raise |-> r.raise \/ T.raise,
             entry |-> [rate |-> r.val * 100, next_funding |-> T.val]]

\* The value stored for a ticker item: [raise, entry].
TickerEntry(m, item) ==
    IF m = "binance"
    THEN LET q == FloatGet(item.q)
         IN [raise |-> q.raise, entry |-> q.val]
    ELSE LET p == Float(item.p)
             q == FloatGet(item.q)
         IN [raise |-> p.raise \/ q.raise,
             entry |-> [price |-> p.val, volume |-> q.val]]

\* The loop that keeps the entry a symbol already has.
RECURSIVE StreamLoop_KeepFirst(_, _, _, _, _)
StreamLoop_KeepFirst(m, stream, data, i, store) ==
    IF i > Len(data) THEN store
    ELSE LET k == StreamKey(m, data[i]) IN
         IF k.skip THEN StreamLoop_KeepFirst(m, stream, data, i + 1, store)
         ELSE LET b == IF stream = "funding" THEN FundingEntry(m, data[i])
                       ELSE TickerEntry(m, data[i])
              IN IF b.raise THEN store
                 ELSE IF k.key \in DOMAIN store
                      THEN StreamLoop_KeepFirst(m, stream, data, i + 1, store)
                      ELSE StreamLoop_KeepFirst(m, stream, data, i + 1,
                                                Put(store, k.key, b.entry))

\* The loop that gives up control after one item: the items that follow are
\* not applied yet when another task runs.
StreamLoop_Suspends(m, stream, data, i, store) ==
    IF i > Len(data) THEN store
    ELSE LET k == StreamKey(m, data[i]) IN
         IF k.skip THEN store
         ELSE LET b == IF stream = "funding" THEN FundingEntry(m, data[i])
                       ELSE TickerEntry(m, data[i])
              IN IF b.raise THEN store ELSE Put(store, k.key, b.entry)

\* The loop of a handler that builds the dict anew from each message: what
\* the message does not name is gone.
RECURSIVE StreamLoop_Replaces(_, _, _, _, _)
StreamLoop_Replaces(m, stream, data, i, store) ==
    LET s == IF i = 1 THEN EmptyDict ELSE store
    IN IF i > Len(data) THEN s
       ELSE LET k == StreamKey(m, data[i]) IN
            IF k.skip THEN StreamLoop_Replaces(m, stream, data, i + 1, s)
            ELSE LET b == IF stream = "funding" THEN FundingEntry(m, data[i])
                          ELSE TickerEntry(m, data[i])
                 IN IF b.raise THEN s
                    ELSE StreamLoop_Replaces(m, stream, data, i + 1, Put(s, k.key, b.entry))

\* for item in data: the dict after the loop from item i on; the loop ends at
\* the first item that raises, and what it stored before stays.
RECURSIVE StreamLoop(_, _, _, _, _)
StreamLoop(m, stream, data, i, store) ==
    IF i > Len(data) THEN store
    ELSE LET k == StreamKey(m, data[i]) IN
         IF k.skip THEN StreamLoop(m, stream, data, i + 1, store)
         ELSE LET b == IF stream = "funding" THEN FundingEntry(m, data[i])
                       ELSE TickerEntry(m, data[i])
              IN IF b.raise THEN store
                 ELSE StreamLoop(m, stream, data, i + 1, Put(store, k.key, b.entry))

----------------------------------------------------------------------------
(* OKX instrument listing (instType SWAP) requested before subscribing *)

\* inst["instId"], inst["settleCcy"]
SwapInstrument(instId, settleCcy) == [instId |-> instId, settleCcy |-> settleCcy]

SwapInstruments ==
    {SwapInstrument(BTC \o SWAP, USDT),
     SwapInstrument(BTC \o USD_SWAP, BTC),
     SwapInstrument(ETH \o SWAP, Missing)}

\* The listing names an instrument once.
SwapLists ==
    {l \in SeqsUpTo(SwapInstruments, MaxList) :
        \A i, j \in 1..Len(l) : i # j => l[i].instId # l[j].instId}

\* The request fails, or answers with another status than 200, or with text
\* that is no JSON, or with an object whose code is "0" (ok) or not.
SwapResponses ==
    [kind : {"neterr", "status", "unparsable"}, ok : {FALSE}, list : {<<>>}]
      \cup [kind : {"json"}, ok : {FALSE}, list : {<<>>}]
      \cup [kind : {"json"}, ok : {TRUE}, list : SwapLists]

\* for inst in data["data"]: [raise, symbols] after the loop from inst i on.
RECURSIVE SwapLoop(_, _, _)
SwapLoop(list, i, symbols) ==
    IF i > Len(list) THEN [raise |-> FALSE, symbols |-> symbols]
    ELSE IF list[i].settleCcy = Missing THEN [raise |-> TRUE, symbols |-> symbols]
    ELSE IF list[i].settleCcy = USDT /\ EndsWith(list[i].instId, SWAP)
         THEN SwapLoop(list, i + 1, symbols \cup {list[i].instId})
         ELSE SwapLoop(list, i + 1, symbols)

\* for inst_id in self._subscribed_symbols: the funding-rate and the tickers
\* argument of each instrument id, in the order the set is iterated (one
\* order per set).
RECURSIVE Args(_)
Args(symbols) ==
    IF symbols = {} THEN <<>>
    ELSE LET inst_id == CHOOSE x \in symbols : TRUE
         IN <<[channel |-> "funding-rate", instId |-> inst_id],
              [channel |-> "tickers", instId |-> inst_id]>>
              \o Args(symbols \ {inst_id})

\* for i in range(0, len(args), 50): batch = args[i:i+50]
Batches(args) ==
    [b \in 1..((Len(args) + BATCH_SIZE - 1) \div BATCH_SIZE) |->
        SubSeq(args, (b - 1) * BATCH_SIZE + 1,
               IF b * BATCH_SIZE < Len(args) THEN b * BATCH_SIZE ELSE Len(args))]

\* _subscribe_to_channels: [symbols |-> _subscribed_symbols after it,
\* sent |-> the instrument ids of the subscribe messages it sent].
Subscribe(symbols, resp) ==
    IF resp.kind \in {"neterr", "unparsable"} THEN [symbols |-> symbols, sent |-> {}]
    ELSE IF resp.kind = "status" \/ ~resp.ok THEN [symbols |-> symbols, sent |-> symbols]
    ELSE LET r == SwapLoop(resp.list, 1, symbols)
         IN [symbols |-> r.symbols, sent |-> IF r.raise THEN {} ELSE r.symbols]

\* The value stored for an item of a stream: [raise, entry].
StreamEntry(m, stream, item) ==
    IF stream = "funding" THEN FundingEntry(m, item) ELSE TickerEntry(m, item)

\* History: the message raises in parsing: it is no JSON, or the loop reaches
\* an item whose conversion raises.
MessageRaises(m, msg) ==
    \/ msg.stream = "unparsable"
    \/ \E i \in 1..Len(msg.data) :
          ~StreamKey(m, msg.data[i]).skip /\ StreamEntry(m, msg.stream, msg.data[i]).raise

\* History: item i of the message was parsed and stored (the loop reached it,
\* did not pass over it, and its conversions succeeded).
Parsed(m, stream, data, i) ==
    /\ ~StreamKey(m, data[i]).skip
    /\ \A j \in 1..i :
         StreamKey(m, data[j]).skip \/ ~StreamEntry(m, stream, data[j]).raise

\* History: symbol key -> the item parsed last for it, after the message.
LastParsed(m, stream, data, old) ==
    LET at(k) == {i \in 1..Len(data) :
                    Parsed(m, stream, data, i) /\ StreamKey(m, data[i]).key = k}
        new == {StreamKey(m, data[i]).key :
                  i \in {j \in 1..Len(data) : Parsed(m, stream, data, j)}}
    IN [k \in DOMAIN old \cup new |->
          IF at(k) = {} THEN old[k]
          ELSE data[CHOOSE i \in at(k) : \A j \in at(k) : j <= i]]

----------------------------------------------------------------------------
(* Monitor state and snapshots *)

FundingStore(m) == IF m = "binance" THEN mark_data ELSE funding_data
TickerStore(m) == IF m = "binance" THEN ticker_volume ELSE ticker_data

\* The snapshot loop that leaves the spot filter out.
Snapshot_NoFilter(m, use_spot_filter, spot_symbols) ==
    LET F == FundingStore(m)
        K == TickerStore(m)
    IN [sym \in DOMAIN F |->
          [symbol |-> sym, rate |-> F[sym].rate,
           volume |-> IF sym \notin DOMAIN K THEN 0
                      ELSE IF m = "binance" THEN K[sym] ELSE K[sym].volume,
           price |-> IF m = "binance" THEN F[sym].price
                     ELSE IF sym \in DOMAIN K THEN K[sym].price ELSE 0,
           next_funding |-> F[sym].next_funding]]

\* The snapshot loop that passes over a symbol with no ticker yet.
Snapshot_OmitsNoTicker(m, use_spot_filter, spot_symbols) ==
    LET F == FundingStore(m)
        K == TickerStore(m)
    IN [sym \in {k \in DOMAIN F \cap DOMAIN K :
                    ~use_spot_filter \/ k \in spot_symbols} |->
          [symbol |-> sym, rate |-> F[sym].rate,
           volume |-> IF m = "binance" THEN K[sym] ELSE K[sym].volume,
           price |-> IF m = "binance" THEN F[sym].price ELSE K[sym].price,
           next_funding |-> F[sym].next_funding]]

\* The snapshot loop over every symbol the monitor has heard of, a ticker
\* alone giving an entry of rate zero.
Snapshot_AnySymbol(m, use_spot_filter, spot_symbols) ==
    LET F == FundingStore(m)
        K == TickerStore(m)
    IN [sym \in {k \in DOMAIN F \cup DOMAIN K : ~use_spot_filter \/ k \in spot_symbols} |->
          [symbol |-> sym,
           rate |-> IF sym \in DOMAIN F THEN F[sym].rate ELSE 0,
           volume |-> IF sym \notin DOMAIN K THEN 0
                      ELSE IF m = "binance" THEN K[sym] ELSE K[sym].volume,
           price |-> IF m = "binance" THEN (IF sym \in DOMAIN F THEN F[sym].price ELSE 0)
                     ELSE IF sym \in DOMAIN K THEN K[sym].price ELSE 0,
           next_funding |-> IF sym \in DOMAIN F THEN F[sym].next_funding ELSE 0]]

\* The dict get_snapshot builds from the monitor's state (no suspension point).
Snapshot(m, use_spot_filter, spot_symbols) ==
    LET F == FundingStore(m)
        K == TickerStore(m)
    IN [sym \in {k \in DOMAIN F : ~use_spot_filter \/ k \in spot_symbols} |->
          [symbol |-> sym, rate |-> F[sym].rate,
           volume |-> IF sym \notin DOMAIN K THEN 0
                      ELSE IF m = "binance" THEN K[sym] ELSE K[sym].volume,
           price |-> IF m = "binance" THEN F[sym].price
                     ELSE IF sym \in DOMAIN K THEN K[sym].price ELSE 0,
           next_funding |-> F[sym].next_funding]]

\* A _run task: where it is suspended, what is left of its sleep, and the
\* instrument ids subscribed on its open connection (OKX). History: retry, it
\* has left _connect before.
NewRun == [pc |-> "connecting", timer |-> 0, wire |-> {}, retry |-> FALSE]

\* start() without its test of _task (at most two tasks, to keep it finite).
StartTask_NoGuard(m) ==
    IF Len(runs[m]) < 2
    THEN <<Len(runs[m]) + 1, Append(runs[m], NewRun)>>
    ELSE <<task[m], runs[m]>>

\* start(): <<_task, the tasks created>> after it.
StartTask(m) ==
    IF task[m] = 0
    THEN <<Len(runs[m]) + 1, Append(runs[m], NewRun)>>
    ELSE <<task[m], runs[m]>>

----------------------------------------------------------------------------
(* Frames *)

NoRefresh == [set |-> {}, at |-> -1]

\* fn: the function the task runs; pc: where it is suspended; now,
\* use_spot_filter, spot_symbols: its locals; timer: what is left of its sleep.
\* History: nSpotReq, nReq: the listing and the funding/ticker requests it
\* issued; refresh: how the refresh of its get ended; within: the refresh that
\* completed less than the TTL before its get started.
IdleFrame(e) ==
    [fn |-> "none", pc |-> "idle", exch |-> e, now |-> 0,
     use_spot_filter |-> FALSE, spot_symbols |-> {}, timer |-> 0,
     nSpotReq |-> 0, nReq |-> 0, refresh |-> "none", within |-> NoRefresh]

NoResponse == [kind |-> "none", status |-> 0, body |-> "none", ok |-> FALSE, list |-> <<>>]

\* History: a collector call as it returns. resp: the funding/ticker response
\* it received; result: the snapshot; raised: an exception left the call instead.
NoReturn ==
    [caller |-> "none", exch |-> "none", use_spot_filter |-> FALSE,
     spot_symbols |-> {}, nSpotReq |-> 0, nReq |-> 0, resp |-> NoResponse,
     raised |-> FALSE, result |-> EmptyDict]

Return(c, f, resp, raised, result) ==
    [caller |-> c, exch |-> f.exch, use_spot_filter |-> f.use_spot_filter,
     spot_symbols |-> f.spot_symbols, nSpotReq |-> f.nSpotReq, nReq |-> f.nReq,
     resp |-> resp, raised |-> raised, result |-> result]

\* The freshness test with the window one second short.
CacheFresh_ShortWindow(e, now) ==
    /\ SPOT_SYMBOL_CACHE[e] # {}
    /\ now - SPOT_SYMBOL_LAST_FETCH[e] < SPOT_SYMBOL_TTL - 1

\* if SPOT_SYMBOL_CACHE[e] and now - SPOT_SYMBOL_LAST_FETCH[e] < SPOT_SYMBOL_TTL
CacheFresh(e, now) ==
    /\ SPOT_SYMBOL_CACHE[e] # {}
    /\ now - SPOT_SYMBOL_LAST_FETCH[e] < SPOT_SYMBOL_TTL

\* History: the last completed refresh of e, when the get starting now is made
\* less than the TTL after the start of the get that did it.
Within(e) ==
    IF lastRefresh[e] # NoRefresh /\ clock - lastRefresh[e].at < SPOT_SYMBOL_TTL
    THEN lastRefresh[e] ELSE NoRefresh

\* get_<e>_spot_symbols up to its first suspension point: the frame after it.
SpotEnter(f) ==
    LET e == f.exch
        g == [f EXCEPT !.within = Within(e), !.refresh = "none"]
    IN IF CacheFresh(e, clock)
       THEN [g EXCEPT !.pc = "spot_done", !.spot_symbols = SPOT_SYMBOL_CACHE[e],
                      !.nSpotReq = 0]
       ELSE [g EXCEPT !.pc = "spot_fetch", !.now = clock, !.nSpotReq = 1]

\* The refresh that never puts the timestamp back: the set is stored as it is,
\* the timestamp only when it is later than the one stored.
SpotStore_NewestStamp(f, resp) ==
    LET e == f.exch
        p == SpotParse(e, resp)
    IN IF p.raise
       THEN <<SPOT_SYMBOL_CACHE[e], SPOT_SYMBOL_LAST_FETCH[e]>>
       ELSE <<p.symbols,
              IF f.now > SPOT_SYMBOL_LAST_FETCH[e] THEN f.now ELSE SPOT_SYMBOL_LAST_FETCH[e]>>

\* What the refresh stores: <<set, timestamp>> of the exchange after it.
SpotStore(f, resp) ==
    LET e == f.exch
        p == SpotParse(e, resp)
    IN IF p.raise
       THEN <<SPOT_SYMBOL_CACHE[e], SPOT_SYMBOL_LAST_FETCH[e]>>
       ELSE <<p.symbols, f.now>>

\* An assignment that writes the value to the entry of every exchange.
Stored_Shared(d, e, v) == [x \in DOMAIN d |-> v]

\* SPOT_SYMBOL_CACHE['<e>'] = symbols and SPOT_SYMBOL_LAST_FETCH['<e>'] = now:
\* the dict after the assignment.
Stored(d, e, v) == [d EXCEPT ![e] = v]

\* What get_<e>_spot_symbols returns once the response arrived.
SpotReturn(f, resp) ==
    LET p == SpotParse(f.exch, resp)
    IN IF p.raise THEN SPOT_SYMBOL_CACHE[f.exch] ELSE p.symbols

\* The frame of a get that returns after its response arrived.
SpotLeave(f, resp) ==
    [f EXCEPT !.pc = "spot_done", !.now = 0,
              !.spot_symbols = SpotReturn(f, resp),
              !.refresh = IF SpotFailure(resp) THEN "failed" ELSE "ok"]

\* The collector from the point where it holds spot_symbols: a REST fetcher
\* issues its funding/ticker request and is suspended; a monitor builds the
\* snapshot and returns (the frame is idle again). The history of the get goes
\* with the get.
AfterSpot(f) ==
    IF f.fn = "spot" THEN f
    ELSE IF f.exch \in RestExchanges
         THEN [f EXCEPT !.pc = "ticker_fetch", !.nReq = f.nReq + 1,
                        !.refresh = "none", !.within = NoRefresh]
         ELSE [f EXCEPT !.pc = "return", !.refresh = "none", !.within = NoRefresh]

\* if use_spot_filter: spot_symbols = await get_<e>_spot_symbols()
\* else: spot_symbols = set()
WithSpot(f) ==
    IF f.use_spot_filter
    THEN LET g == SpotEnter(f)
         IN IF g.pc = "spot_done" THEN AfterSpot(g) ELSE g
    ELSE AfterSpot([f EXCEPT !.spot_symbols = {}])

\* The frame a step leaves: a call that reached its return is over.
Settle(f) == IF f.pc = "return" THEN IdleFrame(f.exch) ELSE f

\* What a step records when it leaves frame f of caller c: the snapshot of a
\* monitor, if the call reached its return.
Returns(c, f) ==
    IF f.pc = "return"
    THEN Return(c, f, NoResponse, FALSE, Snapshot(f.exch, f.use_spot_filter, f.spot_symbols))
    ELSE NoReturn

----------------------------------------------------------------------------
(* get_all_funding_rates *)

\* No call of get_all_funding_rates is in progress. A call holds: the
\* exchanges asked for, tasks (the exchange of each coroutine, in the order
\* of the appends), responses (index -> what gather has collected) and
\* results. History: collected, exchange -> the snapshot its collector
\* returned.
NoCall ==
    [pc |-> "idle", exchanges |-> {}, use_spot_filter |-> FALSE, tasks |-> <<>>,
     responses |-> EmptyDict, results |-> EmptyDict, collected |-> EmptyDict,
     object |-> EmptyDict]

\* The order of the four `if '<exchange>' in exchanges` tests.
TaskOrder == <<"bybit", "binance", "bitget", "okx">>

\* tasks, as the appends build it.
Tasks(exchanges) == SelectSeq(TaskOrder, LAMBDA e : e \in exchanges)

\* The index in tasks of the coroutine of caller c.
Index(c) == CHOOSE idx \in DOMAIN agg.tasks : agg.tasks[idx] = c

\* The coroutine of c is one gather waits for.
Pending(c) ==
    /\ agg.pc = "gather"
    /\ \E idx \in DOMAIN agg.tasks : agg.tasks[idx] = c /\ idx \notin DOMAIN agg.responses

\* The dict handed out is the monitor's own dict of funding data.
ReturnedObject_TheStore(e) == IF e \in Monitors THEN "store" ELSE "new"

\* The object a collector returns: the dict it created in the call
\* (snapshot = {}, result = {}), filled with dict literals of numbers created
\* in the call; no object of a monitor or of the cache is reachable from it.
ReturnedObject(e) == "new"

\* asyncio.gather (without return_exceptions) when a step leaves `ret`: the
\* value a coroutine returns is kept at the coroutine's index; an exception a
\* coroutine raises is raised in get_all_funding_rates.
Gathered(ret) ==
    IF agg.pc # "gather" \/ ret.caller = "none" THEN agg
    ELSE IF ret.raised THEN [agg EXCEPT !.pc = "raised"]
    ELSE [agg EXCEPT !.responses = Put(@, Index(ret.caller), ret.result),
                     !.collected = Put(@, ret.exch, ret.result),
                     !.object = Put(@, ret.exch, ReturnedObject(ret.exch))]

\* The results that leave out the exchanges with an empty snapshot.
Results_SkipEmpty(tasks, responses) ==
    [e \in {tasks[idx] : idx \in {i \in DOMAIN tasks : responses[i] # EmptyDict}} |->
        responses[CHOOSE idx \in DOMAIN tasks : tasks[idx] = e]]

\* The results with a key for each of the four exchanges, asked for or not.
Results_AllKnown(tasks, responses) ==
    [e \in Exchanges |->
        IF \E idx \in DOMAIN tasks : tasks[idx] = e
        THEN responses[CHOOSE idx \in DOMAIN tasks : tasks[idx] = e]
        ELSE EmptyDict]

\* for idx, (exch, _) in enumerate(tasks): results[exch] = responses[idx]
Results(tasks, responses) ==
    [e \in {tasks[idx] : idx \in DOMAIN tasks} |->
        responses[CHOOSE idx \in DOMAIN tasks : tasks[idx] = e]]

----------------------------------------------------------------------------
(* get_top_funding_rates and the loop of check_threshold_alerts *)

\* The value of a snapshot under a symbol key. A dict is read in the order
\* .items() iterates it: a snapshot is the sequence of its values (each
\* carries its key), and the result of get_all_funding_rates the sequence of
\* the pairs <<exchange, snapshot>>.
Entry(symbol, rate, volume, price, next_funding) ==
    [symbol |-> symbol, rate |-> rate, volume |-> volume, price |-> price,
     next_funding |-> next_funding]

\* abs(x)
Abs(x) == IF x < 0 THEN -x ELSE x

Reverse(l) == [i \in 1..Len(l) |-> l[Len(l) + 1 - i]]

\* x put into a list sorted in ascending order of the key, behind the
\* elements whose key is not greater than its own; the key is
\* key=lambda x: abs(x[1]), x a tuple (symbol, rate).
InsertBehind(sorted, x) ==
    LET p == Cardinality({i \in 1..Len(sorted) : Abs(sorted[i][2]) <= Abs(x[2])})
    IN SubSeq(sorted, 1, p) \o <<x>> \o SubSeq(sorted, p + 1, Len(sorted))

\* A stable sort in ascending order of the key: the elements are put in one
\* after the other, in the order of the list.
RECURSIVE SortedAscending(_)
SortedAscending(l) ==
    IF l = <<>> THEN <<>>
    ELSE InsertBehind(SortedAscending(SubSeq(l, 1, Len(l) - 1)), l[Len(l)])

\* A descending sort that turns the ascending result round: equal keys come
\* out in the opposite order.
Sorted_TurnedRound(l, reverse) ==
    IF reverse THEN Reverse(SortedAscending(l)) ELSE SortedAscending(l)

\* sorted(l, key=..., reverse=reverse): the sort is stable in both directions
\* (with reverse the list is turned round before and after the sort).
Sorted(l, reverse) ==
    IF reverse THEN Reverse(SortedAscending(Reverse(l))) ELSE SortedAscending(l)

TOP_N == 5     \* sorted_rates[:5]

get_top_funding_rates(funding_rates, positive) ==
    LET kept == SelectSeq(funding_rates, LAMBDA data : (data.rate > 0) = positive)
        filtered == [i \in 1..Len(kept) |-> <<kept[i].symbol, kept[i].rate>>]
        sorted_rates == Sorted(filtered, TRUE)
    IN SubSeq(sorted_rates, 1, IF Len(sorted_rates) < TOP_N THEN Len(sorted_rates) ELSE TOP_N)

\* "정보 없음": the countdown of an entry without a next funding time.
UNKNOWN == [known |-> FALSE, hours |-> 0, minutes |-> 0]

MS_PER_MINUTE == 60 * 1000
MS_PER_HOUR == 60 * MS_PER_MINUTE

\* A countdown computed without the max(0, ...).
Countdown_NoClamp(next_funding, now) ==
    IF next_funding = 0 THEN UNKNOWN
    ELSE LET remaining == next_funding - now
         IN [known |-> TRUE, hours |-> remaining \div MS_PER_HOUR,
             minutes |-> (remaining % MS_PER_HOUR) \div MS_PER_MINUTE]

\* if data.get('next_funding'): remaining = max(0, next_funding / 1000 -
\* time.time()); hours = int(remaining // 3600); minutes = int((remaining %
\* 3600) // 60). Times are in milliseconds here, now being time.time() * 1000.
Countdown(next_funding, now) ==
    IF next_funding = 0 THEN UNKNOWN
    ELSE LET remaining == IF next_funding - now > 0 THEN next_funding - now ELSE 0
         IN [known |-> TRUE, hours |-> remaining \div MS_PER_HOUR,
             minutes |-> (remaining % MS_PER_HOUR) \div MS_PER_MINUTE]

\* A test that leaves out the values equal to the threshold or to the filter.
Alerting_Strict(data, threshold, volume_filter) ==
    Abs(data.rate) > threshold /\ data.volume > volume_filter

\* abs(data['rate']) >= threshold and data['volume'] >= volume_filter
Alerting(data, threshold, volume_filter) ==
    Abs(data.rate) >= threshold /\ data.volume >= volume_filter

\* alert_data of an entry
AlertData(exchange_name, data, now) ==
    [exchange |-> exchange_name, symbol |-> data.symbol,
     coin_name |-> SplitFirst(data.symbol, "/"), rate |-> data.rate,
     price |-> data.price, volume |-> data.volume,
     countdown |-> Countdown(data.next_funding, now)]

\* for symbol, data in funding_rates.items(): the alerts appended
RECURSIVE SnapshotAlerts(_, _, _, _, _, _)
SnapshotAlerts(exchange_name, funding_rates, i, threshold, volume_filter, now) ==
    IF i > Len(funding_rates) THEN <<>>
    ELSE (IF Alerting(funding_rates[i], threshold, volume_filter)
          THEN <<AlertData(exchange_name, funding_rates[i], now)>> ELSE <<>>)
         \o SnapshotAlerts(exchange_name, funding_rates, i + 1, threshold, volume_filter, now)

\* for exchange_name, funding_rates in all_rates.items(): alerts after the loop
RECURSIVE Alerts(_, _, _, _, _)
Alerts(all_rates, e, threshold, volume_filter, now) ==
    IF e > Len(all_rates) THEN <<>>
    ELSE SnapshotAlerts(all_rates[e][1], all_rates[e][2], 1, threshold, volume_filter, now)
         \o Alerts(all_rates, e + 1, threshold, volume_filter, now)

\* No evaluation. An evaluation holds the function applied (fn), its inputs
\* and, once done, its result (top or alerts).
NoJob ==
    [fn |-> "none", pc |-> "idle", funding_rates |-> <<>>, positive |-> FALSE,
     top |-> <<>>, all_rates |-> <<>>, threshold |-> 0, volume_filter |-> 0,
     now |-> 0, alerts |-> <<>>, base |-> <<>>, keys |-> <<>>, spot |-> <<>>,
     queue |-> <<>>, starts |-> 0, fired |-> 0]

----------------------------------------------------------------------------
(* Actions of the spot-symbol cache *)

\* A task calls get_<e>_spot_symbols().
SpotCall(c) ==
    /\ calls[c].pc = "idle"
    /\ calls' = [calls EXCEPT ![c] = SpotEnter([calls[c] EXCEPT !.fn = "spot"])]
    /\ UNCHANGED <<cacheVars, clock, monVars, stepVars, agg, job>>

\* The listing request of a suspended get completes; a collector goes on.
SpotResponse(c, resp) ==
    LET f == calls[c]
        e == f.exch
        st == SpotStore(f, resp)
    IN /\ f.pc = "spot_fetch"
       /\ SPOT_SYMBOL_CACHE' = Stored(SPOT_SYMBOL_CACHE, e, st[1])
       /\ SPOT_SYMBOL_LAST_FETCH' = Stored(SPOT_SYMBOL_LAST_FETCH, e, st[2])
       /\ lastRefresh' =
            IF SpotParse(e, resp).raise THEN lastRefresh
            ELSE [lastRefresh EXCEPT ![e] = [set |-> SpotReturn(f, resp), at |-> f.now]]
       /\ calls' = [calls EXCEPT ![c] = Settle(AfterSpot(SpotLeave(f, resp)))]
       /\ returned' = Returns(c, AfterSpot(SpotLeave(f, resp)))
       /\ replaced' = {}
       /\ dropped' = FALSE
       /\ outbound' = <<>>
       /\ agg' = Gathered(returned')
       /\ UNCHANGED <<clock, monVars, job>>

\* The caller takes the returned set; its task is free for the next call.
SpotDone(c) ==
    /\ calls[c].fn = "spot"
    /\ calls[c].pc = "spot_done"
    /\ calls' = [calls EXCEPT ![c] = IdleFrame(calls[c].exch)]
    /\ UNCHANGED <<cacheVars, clock, monVars, stepVars, agg, job>>

\* Time passes.
Tick(d) ==
    /\ clock + d <= MaxTime
    /\ clock' = clock + d
    /\ UNCHANGED <<cacheVars, calls, monVars, stepVars, agg, job>>

----------------------------------------------------------------------------
(* Actions of the collectors *)

\* The frame of a collector after its first step: get_snapshot of OKX sleeps
\* when the monitor holds no funding data yet.
Collect(f) ==
    IF f.exch = "okx" /\ DOMAIN funding_data = {}
    THEN [f EXCEPT !.pc = "grace", !.timer = GRACE_PERIOD]
    ELSE WithSpot(f)

\* A task calls get_bybit_funding_rates / get_bitget_funding_rates, or
\* get_snapshot of the monitor of its exchange, which starts the monitor.
CollectCall(c, use_spot_filter) ==
    LET f == [calls[c] EXCEPT !.fn = "collect", !.use_spot_filter = use_spot_filter]
        e == f.exch
    IN /\ calls[c].pc = "idle"
       /\ IF e \in RestExchanges
          THEN UNCHANGED <<task, runs>>
          ELSE /\ task' = [task EXCEPT ![e] = StartTask(e)[1]]
               /\ runs' = [runs EXCEPT ![e] = StartTask(e)[2]]
       /\ calls' = [calls EXCEPT ![c] = Settle(Collect(f))]
       /\ returned' = Returns(c, Collect(f))
       /\ replaced' = {}
       /\ dropped' = FALSE
       /\ outbound' = <<>>
       /\ agg' = Gathered(returned')
       /\ UNCHANGED <<cacheVars, clock, subscribed_symbols, storeVars, job>>

\* The sleep of OKX get_snapshot is over.
GraceOver(c) ==
    /\ calls[c].pc = "grace"
    /\ calls[c].timer = 0
    /\ calls' = [calls EXCEPT ![c] = Settle(WithSpot(calls[c]))]
    /\ returned' = Returns(c, WithSpot(calls[c]))
    /\ replaced' = {}
    /\ dropped' = FALSE
    /\ outbound' = <<>>
    /\ agg' = Gathered(returned')
    /\ UNCHANGED <<cacheVars, clock, monVars, job>>

\* The funding/ticker request of a REST fetcher completes: it returns.
TickerResponse(c, resp) ==
    LET f == calls[c]
        r == RestResult(f.exch, f.use_spot_filter, f.spot_symbols, resp)
    IN /\ f.pc = "ticker_fetch"
       /\ calls' = [calls EXCEPT ![c] = IdleFrame(f.exch)]
       /\ returned' = Return(c, f, resp, r.raised, r.result)
       /\ replaced' = {}
       /\ dropped' = FALSE
       /\ outbound' = <<>>
       /\ agg' = Gathered(returned')
       /\ UNCHANGED <<cacheVars, clock, monVars, job>>

----------------------------------------------------------------------------
(* Actions of the monitors *)

SetRun(m, k, r) == [runs EXCEPT ![m][k] = r]

\* A run leaves _connect (it returned or raised) and sleeps: asyncio.sleep(5).
Reconnecting ==
    [pc |-> "sleeping", timer |-> RECONNECT_DELAY, wire |-> {}, retry |-> TRUE]

\* A run that connects again at once.
AfterConnect_NoDelay == [pc |-> "connecting", timer |-> 0, wire |-> {}, retry |-> TRUE]

\* A run that ends when _connect returned or raised.
AfterConnect_Stops == [pc |-> "stopped", timer |-> 0, wire |-> {}, retry |-> TRUE]

\* _run after _connect returned or raised.
AfterConnect == Reconnecting

\* A run that leaves the connection when a message raises in parsing.
AfterMessage_TearsDown(r, raised) == IF raised THEN AfterConnect ELSE r

\* The run after a text message: the except of the message's try logs the
\* error, and the iteration of the messages goes on.
AfterMessage(r, raised) == r

\* session.ws_connect succeeds: Binance iterates the messages, OKX first
\* requests the instrument listing (_subscribe_to_channels).
ConnectOK(m, k) ==
    /\ k \in DOMAIN runs[m]
    /\ runs[m][k].pc = "connecting"
    /\ runs' = SetRun(m, k, [runs[m][k] EXCEPT
                               !.pc = IF m = "okx" THEN "subscribing" ELSE "streaming"])
    /\ returned' = NoReturn
    /\ replaced' = {}
    /\ dropped' = FALSE
    /\ outbound' = <<>>
    /\ agg' = Gathered(returned')
    /\ UNCHANGED <<cacheVars, clock, calls, task, subscribed_symbols, storeVars, job>>

\* session.ws_connect raises.
ConnectFail(m, k) ==
    /\ k \in DOMAIN runs[m]
    /\ runs[m][k].pc = "connecting"
    /\ runs' = SetRun(m, k, AfterConnect)
    /\ returned' = NoReturn
    /\ replaced' = {}
    /\ dropped' = FALSE
    /\ outbound' = <<>>
    /\ agg' = Gathered(returned')
    /\ UNCHANGED <<cacheVars, clock, calls, task, subscribed_symbols, storeVars, job>>

\* The connection ends while the run iterates it: an ERROR frame (break), a
\* close (the iteration ends) or an exception of the transport.
StreamEnd(m, k) ==
    /\ k \in DOMAIN runs[m]
    /\ runs[m][k].pc = "streaming"
    /\ runs' = SetRun(m, k, AfterConnect)
    /\ returned' = NoReturn
    /\ replaced' = {}
    /\ dropped' = FALSE
    /\ outbound' = <<>>
    /\ agg' = Gathered(returned')
    /\ UNCHANGED <<cacheVars, clock, calls, task, subscribed_symbols, storeVars, job>>

\* The sleep of _run is over: while True goes round.
Wake(m, k) ==
    /\ k \in DOMAIN runs[m]
    /\ runs[m][k].pc = "sleeping"
    /\ runs[m][k].timer = 0
    /\ runs' = SetRun(m, k, [runs[m][k] EXCEPT !.pc = "connecting"])
    /\ returned' = NoReturn
    /\ replaced' = {}
    /\ dropped' = FALSE
    /\ outbound' = <<>>
    /\ agg' = Gathered(returned')
    /\ UNCHANGED <<cacheVars, clock, calls, task, subscribed_symbols, storeVars, job>>

\* The clock of the event loop advances: every pending sleep gets shorter.
Elapse(t) == IF t > TickStep THEN t - TickStep ELSE 0

LoopTick ==
    /\ \/ \E m \in Monitors : \E k \in DOMAIN runs[m] : runs[m][k].timer > 0
       \/ \E c \in DOMAIN calls : calls[c].timer > 0
    /\ runs' = [m \in Monitors |->
                  [k \in DOMAIN runs[m] |->
                     [runs[m][k] EXCEPT !.timer = Elapse(runs[m][k].timer)]]]
    /\ calls' = [c \in DOMAIN calls |-> [calls[c] EXCEPT !.timer = Elapse(calls[c].timer)]]
    /\ returned' = NoReturn
    /\ replaced' = {}
    /\ dropped' = FALSE
    /\ outbound' = <<>>
    /\ agg' = Gathered(returned')
    /\ UNCHANGED <<cacheVars, clock, task, subscribed_symbols, storeVars, job>>

\* The listing response arrives in _subscribe_to_channels, the subscribe
\* messages are sent, and the run goes on to iterate the messages.
Subscribed(k, resp) ==
    LET r == Subscribe(subscribed_symbols, resp)
    IN /\ k \in DOMAIN runs["okx"]
       /\ runs["okx"][k].pc = "subscribing"
       /\ subscribed_symbols' = r.symbols
       /\ runs' = SetRun("okx", k, [runs["okx"][k] EXCEPT !.pc = "streaming",
                                                          !.wire = r.sent])
       /\ returned' = NoReturn
       /\ replaced' = {}
       /\ dropped' = FALSE
       /\ outbound' = Batches(Args(r.sent))
       /\ agg' = Gathered(returned')
       /\ UNCHANGED <<cacheVars, clock, calls, task, storeVars, job>>

\* A text message arrives on the connection of a run. OKX pushes the channels
\* of the instruments subscribed on that connection only.
Recv(m, k, msg) ==
    LET F == FundingStore(m)
        K == TickerStore(m)
        F2 == IF msg.stream = "funding" THEN StreamLoop(m, "funding", msg.data, 1, F) ELSE F
        K2 == IF msg.stream = "ticker" THEN StreamLoop(m, "ticker", msg.data, 1, K) ELSE K
    IN /\ k \in DOMAIN runs[m]
       /\ runs[m][k].pc = "streaming"
       /\ m = "okx" => \A i \in 1..Len(msg.data) : msg.data[i].s \in runs[m][k].wire
       /\ IF m = "binance"
          THEN /\ mark_data' = F2
               /\ ticker_volume' = K2
               /\ UNCHANGED <<funding_data, ticker_data>>
          ELSE /\ funding_data' = F2
               /\ ticker_data' = K2
               /\ UNCHANGED <<mark_data, ticker_volume>>
       /\ lastParsed' =
            IF msg.stream = "unparsable" THEN lastParsed
            ELSE [lastParsed EXCEPT ![m][msg.stream] =
                    LastParsed(m, msg.stream, msg.data, lastParsed[m][msg.stream])]
       /\ returned' = NoReturn
       /\ replaced' = {key \in DOMAIN F \cap DOMAIN F2 : F[key] # F2[key]}
                         \cup {key \in DOMAIN K \cap DOMAIN K2 : K[key] # K2[key]}
       /\ dropped' = MessageRaises(m, msg)
       /\ outbound' = <<>>
       /\ agg' = Gathered(returned')
       /\ runs' = SetRun(m, k, AfterMessage(runs[m][k], MessageRaises(m, msg)))
       /\ UNCHANGED <<cacheVars, clock, calls, task, subscribed_symbols, job>>

----------------------------------------------------------------------------
(* Specifications *)

\* The process after start-up: empty caches, monitors constructed and not
\* started, no call running. A behaviour follows the calls for one exchange.
Init ==
    /\ SPOT_SYMBOL_CACHE = [e \in Exchanges |-> {}]
    /\ SPOT_SYMBOL_LAST_FETCH = [e \in Exchanges |-> 0]
    /\ lastRefresh = [e \in Exchanges |-> NoRefresh]
    /\ clock = StartTime
    /\ \E e \in Exchanges : calls = [c \in Callers |-> IdleFrame(e)]
    /\ task = [m \in Monitors |-> 0]
    /\ runs = [m \in Monitors |-> <<>>]
    /\ mark_data = EmptyDict
    /\ ticker_volume = EmptyDict
    /\ funding_data = EmptyDict
    /\ ticker_data = EmptyDict
    /\ subscribed_symbols = {}
    /\ lastParsed = [m \in Monitors |-> [s \in {"funding", "ticker"} |-> EmptyDict]]
    /\ returned = NoReturn
    /\ replaced = {}
    /\ dropped = FALSE
    /\ outbound = <<>>
    /\ agg = NoCall
    /\ job = NoJob

\* The spot-symbol cache on its own, with the wall clock.
NextCache ==
    \/ \E c \in Callers : SpotCall(c)
    \/ \E c \in Callers : \E resp \in SpotResponsesOf[calls[c].exch] : SpotResponse(c, resp)
    \/ \E c \in Callers : SpotDone(c)
    \/ \E d \in TickSteps : Tick(d)

SpecCache == Init /\ [][NextCache]_vars

\* The process after start-up, each of the two tasks calling the get of an
\* exchange of its own (the same one or not).
InitCaches ==
    /\ SPOT_SYMBOL_CACHE = [e \in Exchanges |-> {}]
    /\ SPOT_SYMBOL_LAST_FETCH = [e \in Exchanges |-> 0]
    /\ lastRefresh = [e \in Exchanges |-> NoRefresh]
    /\ clock = StartTime
    /\ \E of \in [Callers -> Exchanges] : calls = [c \in Callers |-> IdleFrame(of[c])]
    /\ task = [m \in Monitors |-> 0]
    /\ runs = [m \in Monitors |-> <<>>]
    /\ mark_data = EmptyDict
    /\ ticker_volume = EmptyDict
    /\ funding_data = EmptyDict
    /\ ticker_data = EmptyDict
    /\ subscribed_symbols = {}
    /\ lastParsed = [m \in Monitors |-> [s \in {"funding", "ticker"} |-> EmptyDict]]
    /\ returned = NoReturn
    /\ replaced = {}
    /\ dropped = FALSE
    /\ outbound = <<>>
    /\ agg = NoCall
    /\ job = NoJob

\* The caches of two exchanges side by side.
SpecCaches == InitCaches /\ [][NextCache]_vars

\* The collectors and the monitors.
Next ==
    \/ \E c \in Callers : \E use_spot_filter \in BOOLEAN : CollectCall(c, use_spot_filter)
    \/ \E c \in Callers : GraceOver(c)
    \/ \E c \in Callers : \E resp \in SpotResponsesOf[calls[c].exch] : SpotResponse(c, resp)
    \/ \E c \in Callers : \E resp \in RestResponsesOf[calls[c].exch] : TickerResponse(c, resp)
    \/ \E m \in Monitors : \E k \in 1..Len(runs[m]) : ConnectOK(m, k)
    \/ \E m \in Monitors : \E k \in 1..Len(runs[m]) : ConnectFail(m, k)
    \/ \E k \in 1..Len(runs["okx"]) : \E resp \in SwapResponses : Subscribed(k, resp)
    \/ \E m \in Monitors : \E k \in 1..Len(runs[m]) :
         \E msg \in StreamMessagesOf[m] : Recv(m, k, msg)
    \/ \E m \in Monitors : \E k \in 1..Len(runs[m]) : StreamEnd(m, k)
    \/ \E m \in Monitors : \E k \in 1..Len(runs[m]) : Wake(m, k)
    \/ LoopTick

Spec == Init /\ [][Next]_vars

\* The scheduling the event loop gives: time passes, a sleep that is over
\* resumes its task, the listing request of a subscribing run completes; and
\* the exchange accepts a connection attempt again and again.
Fairness ==
    /\ WF_vars(LoopTick)
    /\ \A m \in Monitors :
         /\ WF_vars(\E k \in 1..Len(runs[m]) : Wake(m, k))
         /\ SF_vars(\E k \in 1..Len(runs[m]) : ConnectOK(m, k))
    /\ WF_vars(\E k \in 1..Len(runs["okx"]) : \E resp \in SwapResponses : Subscribed(k, resp))

SpecFair == Spec /\ Fairness

\* The lists of exchanges a call of get_all_funding_rates is given: any of the
\* REST exchanges, or one monitor.
Requests == SUBSET RestExchanges \cup {{m} : m \in Monitors}

\* get_all_funding_rates(exchanges, use_spot_filter) is called: it builds the
\* coroutines and waits in gather, or returns {} when there is none.
GetAll(exchanges, use_spot_filter) ==
    /\ agg.pc = "idle"
    /\ agg' = [NoCall EXCEPT !.pc = IF Tasks(exchanges) = <<>> THEN "done" ELSE "gather",
                             !.exchanges = exchanges,
                             !.use_spot_filter = use_spot_filter,
                             !.tasks = Tasks(exchanges)]
    /\ calls' = [c \in {Tasks(exchanges)[idx] : idx \in DOMAIN Tasks(exchanges)} |->
                    IdleFrame(c)]
    /\ returned' = NoReturn
    /\ replaced' = {}
    /\ dropped' = FALSE
    /\ outbound' = <<>>
    /\ UNCHANGED <<cacheVars, clock, monVars, job>>

\* The event loop runs the first step of a coroutine of gather.
TaskStart(c) ==
    /\ Pending(c)
    /\ CollectCall(c, agg.use_spot_filter)

\* Every coroutine has returned: gather returns the responses, and
\* get_all_funding_rates builds results and returns it.
GatherDone ==
    /\ agg.pc = "gather"
    /\ DOMAIN agg.responses = DOMAIN agg.tasks
    /\ agg' = [agg EXCEPT !.pc = "done", !.results = Results(agg.tasks, agg.responses)]
    /\ returned' = NoReturn
    /\ replaced' = {}
    /\ dropped' = FALSE
    /\ outbound' = <<>>
    /\ UNCHANGED <<cacheVars, clock, calls, monVars, job>>

InitAggregate ==
    /\ SPOT_SYMBOL_CACHE = [e \in Exchanges |-> {}]
    /\ SPOT_SYMBOL_LAST_FETCH = [e \in Exchanges |-> 0]
    /\ lastRefresh = [e \in Exchanges |-> NoRefresh]
    /\ clock = StartTime
    /\ calls = EmptyDict
    /\ task = [m \in Monitors |-> 0]
    /\ runs = [m \in Monitors |-> <<>>]
    /\ mark_data = EmptyDict
    /\ ticker_volume = EmptyDict
    /\ funding_data = EmptyDict
    /\ ticker_data = EmptyDict
    /\ subscribed_symbols = {}
    /\ lastParsed = [m \in Monitors |-> [s \in {"funding", "ticker"} |-> EmptyDict]]
    /\ returned = NoReturn
    /\ replaced = {}
    /\ dropped = FALSE
    /\ outbound = <<>>
    /\ agg = NoCall
    /\ job = NoJob

\* One call of get_all_funding_rates at a time, with the collectors it runs
\* and the monitors.
NextAggregate ==
    \/ \E exchanges \in Requests : \E use_spot_filter \in BOOLEAN :
         GetAll(exchanges, use_spot_filter)
    \/ \E c \in DOMAIN calls : TaskStart(c)
    \/ \E c \in DOMAIN calls : GraceOver(c)
    \/ \E c \in DOMAIN calls : \E resp \in SpotResponsesOf[calls[c].exch] : SpotResponse(c, resp)
    \/ \E c \in DOMAIN calls : \E resp \in RestResponsesOf[calls[c].exch] : TickerResponse(c, resp)
    \/ GatherDone
    \/ \E m \in Monitors : \E k \in 1..Len(runs[m]) : ConnectOK(m, k)
    \/ \E m \in Monitors : \E k \in 1..Len(runs[m]) : ConnectFail(m, k)
    \/ \E k \in 1..Len(runs["okx"]) : \E resp \in SwapResponses : Subscribed(k, resp)
    \/ \E m \in Monitors : \E k \in 1..Len(runs[m]) :
         \E msg \in StreamMessagesOf[m] : Recv(m, k, msg)
    \/ \E m \in Monitors : \E k \in 1..Len(runs[m]) : StreamEnd(m, k)
    \/ \E m \in Monitors : \E k \in 1..Len(runs[m]) : Wake(m, k)
    \/ LoopTick

SpecAggregate == InitAggregate /\ [][NextAggregate]_vars

\* The scheduling the event loop gives a call: a coroutine of gather gets its
\* first step, time passes, a sleep that is over resumes, every HTTP request
\* completes (with a response or an error), and gather returns once every
\* coroutine has.
FairnessAggregate ==
    /\ WF_vars(LoopTick)
    /\ WF_vars(\E c \in DOMAIN calls : TaskStart(c))
    /\ WF_vars(\E c \in DOMAIN calls : GraceOver(c))
    /\ WF_vars(\E c \in DOMAIN calls :
                  \E resp \in SpotResponsesOf[calls[c].exch] : SpotResponse(c, resp))
    /\ WF_vars(\E c \in DOMAIN calls :
                  \E resp \in RestResponsesOf[calls[c].exch] : TickerResponse(c, resp))
    /\ WF_vars(GatherDone)

SpecAggregateFair == SpecAggregate /\ FairnessAggregate

\* The calls of get_all_funding_rates over every list of known exchanges:
\* unfiltered for any of the sixteen, filtered for those of Requests.
AnyRequests ==
    {<<exchanges, use_spot_filter>> \in (SUBSET Exchanges) \X BOOLEAN :
        use_spot_filter => exchanges \in Requests}

\* One call at a time with its collectors, while the exchanges accept no
\* stream connection.
NextAggregateAny ==
    \/ \E r \in AnyRequests : GetAll(r[1], r[2])
    \/ \E c \in DOMAIN calls : TaskStart(c)
    \/ \E c \in DOMAIN calls : GraceOver(c)
    \/ \E c \in DOMAIN calls : \E resp \in SpotResponsesOf[calls[c].exch] : SpotResponse(c, resp)
    \/ \E c \in DOMAIN calls : \E resp \in RestResponsesOf[calls[c].exch] : TickerResponse(c, resp)
    \/ GatherDone
    \/ LoopTick

SpecAggregateAny == InitAggregate /\ [][NextAggregateAny]_vars

----------------------------------------------------------------------------
(* The evaluation of snapshots: inputs, actions, specification *)

\* The symbol key of the i-th coin of a snapshot.
Coin(i) == CcxtSymbol(<<"C", <<"1", "2", "3", "4", "5", "6", "7", "8", "9">>[i]>>)

\* Rates in units of 0.0001 per cent, as everywhere in the model.
Rates == {-200, -100, 0, 100, 200}

\* The volume filter in the settings of a user.
VolumeFilters == {0, 1000000}

\* time.time() * 1000 when the loop runs.
Nows == {2 * MS_PER_HOUR, 2 * MS_PER_HOUR + MS_PER_MINUTE \div 2}

\* Entries around the threshold and the filter, with a next funding time
\* ahead, in the past, or none.
AlertEntries ==
    UNION {{Entry(k, 1000, 1000000, 65000, 5 * MS_PER_HOUR + 25 * MS_PER_MINUTE),
            Entry(k, 999, 2000000, 65000, 5 * MS_PER_HOUR + 25 * MS_PER_MINUTE),
            Entry(k, -1500, 999999, 65000, 2 * MS_PER_HOUR + MS_PER_MINUTE),
            Entry(k, -1500, 2000000, 65000, 0),
            Entry(k, -1000, 1000000, 65000, MS_PER_HOUR)} : k \in Keys}

\* A snapshot holds a symbol once.
AlertSnapshots ==
    {l \in SeqsUpTo(AlertEntries, Cardinality(Keys)) :
        \A i, j \in 1..Len(l) : i # j => l[i].symbol # l[j].symbol}

\* The snapshots an exchange can give: an entry of Bitget has no next
\* funding time ('next_funding': 0).
SnapshotsOf(e) ==
    IF e = "bitget"
    THEN {l \in AlertSnapshots : \A i \in 1..Len(l) : l[i].next_funding = 0}
    ELSE AlertSnapshots

\* The results of get_all_funding_rates for the REST exchanges asked for.
AllRates ==
    UNION {{[i \in 1..Len(Tasks(x)) |-> <<Tasks(x)[i], snapshots[i]>>] :
               snapshots \in {f \in [1..Len(Tasks(x)) -> AlertSnapshots] :
                                 \A i \in 1..Len(Tasks(x)) : f[i] \in SnapshotsOf(Tasks(x)[i])}} :
              x \in SUBSET RestExchanges}

\* A job is about to evaluate what get_all_funding_rates returned: the report
\* job a snapshot, which starts empty and is filled by AddEntry, the alert job
\* the snapshots of the exchanges.
InitRanking ==
    /\ SPOT_SYMBOL_CACHE = [e \in Exchanges |-> {}]
    /\ SPOT_SYMBOL_LAST_FETCH = [e \in Exchanges |-> 0]
    /\ lastRefresh = [e \in Exchanges |-> NoRefresh]
    /\ clock = StartTime
    /\ calls = EmptyDict
    /\ task = [m \in Monitors |-> 0]
    /\ runs = [m \in Monitors |-> <<>>]
    /\ mark_data = EmptyDict
    /\ ticker_volume = EmptyDict
    /\ funding_data = EmptyDict
    /\ ticker_data = EmptyDict
    /\ subscribed_symbols = {}
    /\ lastParsed = [m \in Monitors |-> [s \in {"funding", "ticker"} |-> EmptyDict]]
    /\ returned = NoReturn
    /\ replaced = {}
    /\ dropped = FALSE
    /\ outbound = <<>>
    /\ agg = NoCall
    /\ \/ job = [NoJob EXCEPT !.fn = "top", !.pc = "called"]
       \/ \E all_rates \in AllRates :
            job = [NoJob EXCEPT !.fn = "alerts", !.pc = "called", !.all_rates = all_rates]

\* The snapshot the report job is given holds one more entry, of any rate:
\* the snapshots are the lists of rates in any order.
AddEntry(rate) ==
    /\ job.fn = "top"
    /\ job.pc = "called"
    /\ Len(job.funding_rates) < MaxSnapshot
    /\ job' = [job EXCEPT !.funding_rates =
                  Append(@, Entry(Coin(Len(@) + 1), rate, 0, 0, 0))]
    /\ UNCHANGED <<cacheVars, clock, calls, monVars, stepVars, agg>>

\* send_periodic_update calls get_top_funding_rates(funding_rates, positive).
GetTop(positive) ==
    /\ job.fn = "top"
    /\ job.pc = "called"
    /\ job' = [job EXCEPT !.pc = "done", !.positive = positive,
                          !.top = get_top_funding_rates(job.funding_rates, positive)]
    /\ UNCHANGED <<cacheVars, clock, calls, monVars, stepVars, agg>>

\* check_threshold_alerts runs its loop over all_rates.
CheckAlerts(threshold, volume_filter, now) ==
    /\ job.fn = "alerts"
    /\ job.pc = "called"
    /\ job' = [job EXCEPT !.pc = "done", !.threshold = threshold,
                          !.volume_filter = volume_filter, !.now = now,
                          !.alerts = Alerts(job.all_rates, 1, threshold, volume_filter, now)]
    /\ UNCHANGED <<cacheVars, clock, calls, monVars, stepVars, agg>>

NextRanking ==
    \/ \E rate \in Rates : AddEntry(rate)
    \/ \E positive \in BOOLEAN : GetTop(positive)
    \/ \E threshold \in {1000} : \E volume_filter \in VolumeFilters : \E now \in Nows :
         CheckAlerts(threshold, volume_filter, now)

SpecRanking == InitRanking /\ [][NextRanking]_vars

----------------------------------------------------------------------------
(* The symbol keys of a base asset: inputs, actions, specification *)

\* The symbol of the USDT perpetual of a base asset as exchange e spells it:
\* BTCUSDT (Binance, Bybit), BTCUSDT_UMCBL (Bitget), BTC-USDT-SWAP (OKX).
Spelling(e, base) ==
    IF e = "bitget" THEN base \o USDT \o UMCBL
    ELSE IF e = "okx" THEN base \o SWAP
    ELSE base \o USDT

\* The key the code of exchange e gives a raw symbol: the REST loops of Bybit
\* and Bitget, the stream handlers of Binance and OKX.
Normalized_NoSplit(e, raw) ==
    IF e \in RestExchanges THEN RestKeyOf("bybit", raw) ELSE StreamKeyOf(e, raw)

Normalized(e, raw) ==
    IF e \in RestExchanges THEN RestKeyOf(e, raw) ELSE StreamKeyOf(e, raw)

\* A base asset, whose name starts empty and is spelled out by AddLetter, is
\* about to be met in the payloads of the exchanges.
InitSymbols ==
    /\ SPOT_SYMBOL_CACHE = [e \in Exchanges |-> {}]
    /\ SPOT_SYMBOL_LAST_FETCH = [e \in Exchanges |-> 0]
    /\ lastRefresh = [e \in Exchanges |-> NoRefresh]
    /\ clock = StartTime
    /\ calls = EmptyDict
    /\ task = [m \in Monitors |-> 0]
    /\ runs = [m \in Monitors |-> <<>>]
    /\ mark_data = EmptyDict
    /\ ticker_volume = EmptyDict
    /\ funding_data = EmptyDict
    /\ ticker_data = EmptyDict
    /\ subscribed_symbols = {}
    /\ lastParsed = [m \in Monitors |-> [s \in {"funding", "ticker"} |-> EmptyDict]]
    /\ returned = NoReturn
    /\ replaced = {}
    /\ dropped = FALSE
    /\ outbound = <<>>
    /\ agg = NoCall
    /\ job = [NoJob EXCEPT !.fn = "symbol", !.pc = "called"]

\* The name of the base asset has one more character.
AddLetter(ch) ==
    /\ job.fn = "symbol"
    /\ job.pc = "called"
    /\ Len(job.base) < MaxBase
    /\ job' = [job EXCEPT !.base = Append(@, ch)]
    /\ UNCHANGED <<cacheVars, clock, calls, monVars, stepVars, agg>>

\* The code of exchange e meets the perpetual of the base asset and computes
\* its key.
Normalize(e) ==
    /\ job.fn = "symbol"
    /\ e \notin DOMAIN job.keys
    /\ job' = [job EXCEPT !.pc = "done",
                          !.keys = Put(@, e, Normalized(e, Spelling(e, job.base)))]
    /\ UNCHANGED <<cacheVars, clock, calls, monVars, stepVars, agg>>

\* get_<e>_spot_symbols() meets the base asset, quoted in USDT and trading, in
\* the listing and builds the set to cache.
ListSpot(e) ==
    /\ job.fn = "symbol"
    /\ e \notin DOMAIN job.spot
    /\ job' = [job EXCEPT !.pc = "done",
                          !.spot = Put(@, e, SpotLoop(e, <<Instrument(job.base, USDT, ActiveStatus(e))>>,
                                                      1, {}).symbols)]
    /\ UNCHANGED <<cacheVars, clock, calls, monVars, stepVars, agg>>

NextSymbols ==
    \/ \E ch \in {"B", "U", "S", "D", "T", "1"} : AddLetter(ch)
    \/ \E e \in Exchanges : Normalize(e)
    \/ \E e \in Exchanges : ListSpot(e)

SpecSymbols == InitSymbols /\ [][NextSymbols]_vars

----------------------------------------------------------------------------
(* The /start command and the job queue: actions, specification *)

\* The users who send commands.
UserIds == {1, 2}

\* f'periodic_{user_id}', f'threshold_{user_id}'
JobName(kind, user_id) == <<kind, user_id>>

\* job_queue.get_jobs_by_name(name): the scheduled jobs of that name.
get_jobs_by_name(queue, name) == SelectSeq(queue, LAMBDA j : j.name = name)

\* A removal that only marks the jobs: they stay scheduled.
ScheduleRemoval_Deferred(queue, current_jobs) == queue

\* for job in current_jobs: job.schedule_removal(): the queue without them.
ScheduleRemoval(queue, current_jobs) ==
    SelectSeq(queue, LAMBDA j : \A i \in 1..Len(current_jobs) : current_jobs[i].id # j.id)

\* job_queue.run_repeating(callback, interval, first, data, name): the queue
\* with the new job, the id-th created.
run_repeating(queue, callback, interval, first, chat_id, name, id) ==
    Append(queue, [callback |-> callback, interval |-> interval, first |-> first,
                   chat_id |-> chat_id, name |-> name, id |-> id])

\* The queue after the handler of /start for user_id, the n-th /start.
Started(queue, user_id, n) ==
    LET q1 == ScheduleRemoval(queue, get_jobs_by_name(queue, JobName("periodic", user_id)))
        q2 == ScheduleRemoval(q1, get_jobs_by_name(q1, JobName("threshold", user_id)))
        q3 == run_repeating(q2, "send_periodic_update", 1800, 10, user_id,
                            JobName("periodic", user_id), 2 * n - 1)
    IN run_repeating(q3, "check_threshold_alerts", 300, 5, user_id,
                     JobName("threshold", user_id), 2 * n)

\* The application runs, no command received yet, the job queue empty.
InitJobs ==
    /\ SPOT_SYMBOL_CACHE = [e \in Exchanges |-> {}]
    /\ SPOT_SYMBOL_LAST_FETCH = [e \in Exchanges |-> 0]
    /\ lastRefresh = [e \in Exchanges |-> NoRefresh]
    /\ clock = StartTime
    /\ calls = EmptyDict
    /\ task = [m \in Monitors |-> 0]
    /\ runs = [m \in Monitors |-> <<>>]
    /\ mark_data = EmptyDict
    /\ ticker_volume = EmptyDict
    /\ funding_data = EmptyDict
    /\ ticker_data = EmptyDict
    /\ subscribed_symbols = {}
    /\ lastParsed = [m \in Monitors |-> [s \in {"funding", "ticker"} |-> EmptyDict]]
    /\ returned = NoReturn
    /\ replaced = {}
    /\ dropped = FALSE
    /\ outbound = <<>>
    /\ agg = NoCall
    /\ job = [NoJob EXCEPT !.fn = "start"]

\* A user sends /start: the handler runs up to its reply.
Start(user_id) ==
    /\ job.fn = "start"
    /\ job.starts < MaxStarts
    /\ job' = [job EXCEPT !.starts = @ + 1, !.fired = 0,
                          !.queue = Started(job.queue, user_id, job.starts + 1)]
    /\ UNCHANGED <<cacheVars, clock, calls, monVars, stepVars, agg>>

\* A scheduled job is due: its callback runs, and the job stays scheduled for
\* the next interval. History: fired, the id of the job that ran last.
Fire(i) ==
    /\ job.fn = "start"
    /\ i \in 1..Len(job.queue)
    /\ job.fired # job.queue[i].id
    /\ job' = [job EXCEPT !.fired = job.queue[i].id]
    /\ UNCHANGED <<cacheVars, clock, calls, monVars, stepVars, agg>>

NextJobs ==
    \/ \E user_id \in UserIds : Start(user_id)
    \/ \E i \in 1..(2 * Cardinality(UserIds)) : Fire(i)

SpecJobs == InitJobs /\ [][NextJobs]_vars

----------------------------------------------------------------------------
(* Claims about the spot-symbol cache *)

\* A get that started less than the TTL after the get that refreshed last.
StartedWithin(c) ==
    /\ calls[c].pc \in {"spot_fetch", "spot_done"}
    /\ calls[c].within # NoRefresh

\* The get issued no request and, once returned, returned the refreshed set.
Reused(c) ==
    /\ calls[c].nSpotReq = 0
    /\ calls[c].pc = "spot_done" => calls[c].spot_symbols = calls[c].within.set

C2_FailedRefreshKeepsCache ==
    [][\A c \in Callers :
         (calls[c].pc = "spot_fetch" /\ calls'[c].pc = "spot_done"
            /\ calls'[c].refresh = "failed")
         => /\ SPOT_SYMBOL_CACHE' = SPOT_SYMBOL_CACHE
            /\ SPOT_SYMBOL_LAST_FETCH' = SPOT_SYMBOL_LAST_FETCH
            /\ calls'[c].spot_symbols = SPOT_SYMBOL_CACHE[calls[c].exch]]_vars

----------------------------------------------------------------------------
(* Claims about the collectors *)

\* C3: with the spot filter enabled, a snapshot returned by a collector (the
\* Bybit and Bitget fetchers, the Binance and OKX monitors) holds only symbol
\* keys of the spot set the same call obtained, whatever interleaved with it.
C3_FilteredSnapshotWithinSpot ==
    (returned # NoReturn /\ returned.use_spot_filter)
        => DOMAIN returned.result \subseteq returned.spot_symbols

\* A filtered call of the Binance monitor returned some symbols and left out
\* one the monitor holds, while the refresh of another call was in flight.
C3_Witness ==
    /\ returned.exch = "binance" /\ returned.use_spot_filter
    /\ DOMAIN returned.result # {}
    /\ DOMAIN mark_data \ returned.spot_symbols # {}
    /\ \E c \in Callers : calls[c].pc = "spot_fetch"

\* The items of a ticker list the loop converts without error, by key.
ParsedKeys(e, list) ==
    {RestKey(e, list[i]).key :
        i \in {j \in 1..Len(list) :
                 /\ ~RestKey(e, list[j]).skip
                 /\ ~RestEntry(e, list[j], RestKey(e, list[j]).key).raise}}

\* C4: with the spot filter disabled, every successfully parsed instrument is
\* in the returned snapshot, and the call neither consulted the spot cache nor
\* issued a spot-listing request.
C4_UnfilteredSnapshotComplete ==
    (returned # NoReturn /\ ~returned.use_spot_filter)
        => /\ returned.nSpotReq = 0
           /\ returned.spot_symbols = {}
           /\ IF returned.exch \in RestExchanges
              THEN ParsedKeys(returned.exch, returned.resp.list)
                       \subseteq DOMAIN returned.result
              ELSE DOMAIN returned.result = DOMAIN FundingStore(returned.exch)

\* The request failed, or the response has another status than 200, a body
\* that is no JSON, or no success code.
RestError(resp) ==
    resp.kind = "neterr" \/ resp.status # 200 \/ resp.body = "unparsable" \/ ~resp.ok

\* C5: a Bybit or Bitget fetch that meets a network or parse error returns an
\* empty snapshot instead of raising, and a fetch issues its funding/ticker
\* request at most once.
C5_ErrorGivesEmptySnapshot ==
    returned.exch \in RestExchanges
        => /\ ~returned.raised
           /\ returned.nReq <= 1
           /\ RestError(returned.resp) => returned.result = EmptyDict

\* A filtered fetch whose funding/ticker request failed returned.
C5_Witness ==
    /\ returned.exch \in RestExchanges
    /\ returned.resp.kind = "neterr"
    /\ returned.use_spot_filter /\ returned.spot_symbols # {}
    /\ returned.nReq = 1 /\ returned.result = EmptyDict

\* The items of a ticker list with a missing or non-numeric field.
Malformed(e, list) ==
    {i \in 1..Len(list) : RestEntry(e, list[i], RestKey(e, list[i]).key).raise}

\* C6: in a Bybit or Bitget fetch, when exactly one instrument of the list is
\* malformed, that instrument is left out and every other instrument that
\* passes the filter is in the returned snapshot.
C6_OneBadItemSkipped ==
    LET e == returned.exch
        list == returned.resp.list
    IN (e \in RestExchanges /\ ~RestError(returned.resp)
          /\ Cardinality(Malformed(e, list)) = 1)
        => \A i \in 1..Len(list) :
              LET k == RestKey(e, list[i]) IN
              IF i \in Malformed(e, list) THEN k.key \notin DOMAIN returned.result
              ELSE (~k.skip /\ (returned.use_spot_filter => k.key \in returned.spot_symbols))
                      => k.key \in DOMAIN returned.result

----------------------------------------------------------------------------
(* Claims about the monitors *)

\* The runs of a monitor that hold an open connection.
Connected(m) == {k \in 1..Len(runs[m]) : runs[m][k].pc \in {"subscribing", "streaming"}}

\* C7: start() is idempotent: whatever calls of get_snapshot (each calls
\* start()) interleave, a monitor has at most one supervising task, the one
\* _task names, and so at most one open connection.
C7_OneTaskPerMonitor ==
    \A m \in Monitors :
        /\ Len(runs[m]) <= 1
        /\ task[m] = Len(runs[m])
        /\ Cardinality(Connected(m)) <= 1

\* Both callers are inside get_snapshot of the OKX monitor, each after its
\* call of start(), and the monitor has one task.
C7_Witness ==
    /\ \A c \in Callers : calls[c].exch = "okx" /\ calls[c].pc = "grace"
    /\ Len(runs["okx"]) = 1 /\ task["okx"] = 1

\* C8: a started monitor has no terminal state: a run that leaves Streaming or
\* a connection attempt (error, error frame, failed attempt, close) sleeps the
\* fixed 5 seconds; it makes a new attempt only from that sleep, once nothing
\* is left of it; and the sleep is not prolonged.
C8_ExitSleepsThenReconnects ==
    [][\A m \in Monitors : \A k \in 1..Len(runs[m]) :
         LET r == runs[m][k]
             r2 == runs'[m][k]
         IN /\ r2.pc \in {"connecting", "subscribing", "streaming", "sleeping"}
            /\ (r.pc = "streaming" /\ r2.pc # "streaming")
                 => (r2.pc = "sleeping" /\ r2.timer = RECONNECT_DELAY)
            /\ (r.pc = "connecting" /\ r2.pc \notin {"connecting", "subscribing", "streaming"})
                 => (r2.pc = "sleeping" /\ r2.timer = RECONNECT_DELAY)
            /\ (r.pc # "connecting" /\ r2.pc = "connecting")
                 => (r.pc = "sleeping" /\ r.timer = 0)
            /\ (r.pc = "sleeping" /\ r2.pc = "sleeping") => r2.timer <= r.timer]_vars

\* A run that left _connect before has slept and makes a new attempt.
C8_Witness ==
    \E m \in Monitors : \E k \in 1..Len(runs[m]) :
        runs[m][k].pc = "connecting" /\ runs[m][k].retry

\* The snapshot a monitor call returned carries what the items parsed last say:
\* a key for every funding item the filter lets through, with its rate and
\* next funding time, and the volume of the ticker item parsed last for it.
Reflected ==
    returned.exch \in Monitors =>
        LET m == returned.exch
            F == lastParsed[m]["funding"]
            K == lastParsed[m]["ticker"]
        IN /\ DOMAIN returned.result =
                {k \in DOMAIN F : ~returned.use_spot_filter \/ k \in returned.spot_symbols}
           /\ \A k \in DOMAIN returned.result :
                /\ returned.result[k].rate = Float(F[k].r).val * 100
                /\ returned.result[k].next_funding = FloatGet(F[k].T).val
                /\ k \in DOMAIN K => returned.result[k].volume = FloatGet(K[k].q).val

\* C9: after a connection closure, provided the exchange accepts connections
\* again, the run of each monitor is eventually in Streaming again, and the
\* valid items received are what a later get_snapshot returns.
C9_ReconnectsAndReflects ==
    /\ \A m \in Monitors :
         (Len(runs[m]) = 1 /\ runs[m][1].retry /\ runs[m][1].pc # "streaming")
             ~> (Len(runs[m]) = 1 /\ runs[m][1].pc = "streaming")
    /\ []Reflected

\* A run that left _connect before is in Streaming again, and a call of
\* get_snapshot returned the item parsed last.
C9_Witness ==
    /\ returned.exch = "okx"
    /\ runs["okx"][1].pc = "streaming" /\ runs["okx"][1].retry
    /\ DOMAIN returned.result # {}
    /\ \A k \in DOMAIN returned.result :
         returned.result[k].rate = Float(lastParsed["okx"]["funding"][k].r).val * 100

\* C10: last write wins per symbol: the entry a monitor stores for a symbol
\* (Binance mark data and ticker volume, OKX funding data and ticker data) is
\* the one of the item parsed last for the symbol, and only parsed symbols
\* have an entry.
C10_LastWriteWins ==
    \A m \in Monitors : \A stream \in {"funding", "ticker"} :
        LET store == IF stream = "funding" THEN FundingStore(m) ELSE TickerStore(m)
            last == lastParsed[m][stream]
        IN /\ DOMAIN store = DOMAIN last
           /\ \A k \in DOMAIN store : store[k] = StreamEntry(m, stream, last[k]).entry

\* A message replaced the entry of a symbol by another value.
C10_Witness ==
    /\ replaced # {}
    /\ \E m \in Monitors : \A k \in replaced :
         k \in DOMAIN lastParsed[m]["funding"]
            /\ FundingStore(m)[k] = FundingEntry(m, lastParsed[m]["funding"][k]).entry

----------------------------------------------------------------------------
(* Claims about messages, the grace period and the subscription *)

\* C11: a malformed inbound text message never takes a monitor out of
\* Streaming: the step that receives it leaves every run where it was, its
\* connection and subscriptions included, so the messages that follow are
\* received on the same connection.
C11_BadMessageKeepsStreaming ==
    [][dropped' =>
         \A m \in Monitors : \A k \in 1..Len(runs[m]) :
             /\ runs'[m][k] = runs[m][k]
             /\ runs[m][k].pc = "streaming" => runs'[m][k].pc = "streaming"]_vars

\* A message whose second item raised was received: its first item is stored
\* and the run is still in Streaming.
C11_Witness ==
    /\ dropped
    /\ Len(runs["binance"]) = 1 /\ runs["binance"][1].pc = "streaming"
    /\ DOMAIN mark_data # {}

\* C12: for each streaming monitor, the very first get_snapshot, made while no
\* data has arrived yet, waits the fixed grace period before it reads the
\* monitor's state: the call is suspended in the sleep, with the whole period
\* ahead of it, and has not returned.
C12_ColdStartWaits ==
    [][\A c \in Callers : \A u \in BOOLEAN :
          ( /\ CollectCall(c, u)
            /\ calls[c].exch \in Monitors
            /\ task[calls[c].exch] = 0
            /\ DOMAIN FundingStore(calls[c].exch) = {} )
          => /\ calls'[c].pc = "grace"
             /\ calls'[c].timer = GRACE_PERIOD
             /\ returned'.caller # c]_vars

\* C13: in the snapshot a monitor returns, a symbol whose funding-rate (or
\* mark-price) entry is stored while no ticker entry is, and which passes the
\* spot filter, is present, with volume zero and, for OKX, price zero.
C13_NoTickerYetGivesZero ==
    (returned.caller # "none" /\ returned.exch \in Monitors) =>
        \A sym \in DOMAIN FundingStore(returned.exch) \ DOMAIN TickerStore(returned.exch) :
            (returned.use_spot_filter => sym \in returned.spot_symbols) =>
                /\ sym \in DOMAIN returned.result
                /\ returned.result[sym].volume = 0
                /\ returned.exch = "okx" => returned.result[sym].price = 0

\* A filtered snapshot of a monitor holds a symbol that has no ticker entry.
C13_Witness ==
    /\ returned.caller # "none"
    /\ returned.exch \in Monitors
    /\ returned.use_spot_filter
    /\ \E sym \in DOMAIN returned.result : sym \notin DOMAIN TickerStore(returned.exch)

\* The positions <<b, i>> of the subscribe messages of a step that carry the
\* subscription of a channel for an instrument id.
Carrying(channel, inst_id) ==
    {p \in {<<b, i>> : b \in DOMAIN outbound', i \in 1..(2 * BATCH_SIZE)} :
        /\ p[2] \in DOMAIN outbound'[p[1]]
        /\ outbound'[p[1]][p[2]] = [channel |-> channel, instId |-> inst_id]}

\* C14: on each OKX connection every subscribe message sent carries at most 50
\* channel subscriptions, and the messages together carry, exactly once each,
\* the funding-rate and the tickers subscription of every instrument id in
\* _subscribed_symbols.
C14_BatchesCoverSubscribedSet ==
    [][\A k \in 1..Len(runs["okx"]) : \A resp \in SwapResponses :
          Subscribed(k, resp) =>
              /\ \A b \in DOMAIN outbound' : Len(outbound'[b]) <= BATCH_SIZE
              /\ \A inst_id \in subscribed_symbols' :
                    \A channel \in {"funding-rate", "tickers"} :
                        Cardinality(Carrying(channel, inst_id)) = 1]_vars

----------------------------------------------------------------------------
(* Claims about get_all_funding_rates *)

\* C15: whichever collectors of a call fail, the result of the call has an
\* entry for every exchange asked for: the empty snapshot for an exchange
\* whose collector failed (a failed collector returns the empty snapshot), and
\* for every other exchange exactly the snapshot its collector returned.
C15_PartialFailureTolerated ==
    /\ (agg.pc = "gather" /\ returned.exch \in RestExchanges /\ RestError(returned.resp))
          => agg.collected[returned.exch] = EmptyDict
    /\ agg.pc = "done" =>
          /\ DOMAIN agg.results = agg.exchanges
          /\ \A e \in agg.exchanges : agg.results[e] = agg.collected[e]

\* A call for both REST exchanges returned an empty snapshot for one and a
\* non-empty snapshot for the other.
C15_Witness ==
    /\ agg.pc = "done"
    /\ agg.exchanges = RestExchanges
    /\ \E e, o \in RestExchanges :
          agg.results[e] = EmptyDict /\ agg.results[o] # EmptyDict

\* C16: a call of get_all_funding_rates never raises, and it always completes:
\* whatever fails in its collectors (a request, the parsing of a response, the
\* refresh of the spot cache, the stream of a monitor), the call that waits in
\* gather returns its results.
C16_AlwaysCompletes ==
    /\ [](agg.pc # "raised")
    /\ (agg.pc = "gather") ~> (agg.pc = "done")

\* A filtered call for one monitor returned although the spot refresh stored
\* nothing and the monitor's connection is down.
C16_Witness ==
    /\ agg.pc = "done"
    /\ \E m \in Monitors :
          /\ agg.exchanges = {m}
          /\ agg.use_spot_filter
          /\ SPOT_SYMBOL_LAST_FETCH[m] = 0
          /\ runs[m][1].pc = "sleeping"

----------------------------------------------------------------------------
(* Claims about the OKX handshake, concurrent gets and the spot filter *)

\* The listing request of the handshake raised, or was answered with another
\* status than 200 or without the success code.
HandshakeFailed(resp) ==
    resp.kind \in {"neterr", "status", "unparsable"} \/ ~resp.ok

\* C17: when the subscription handshake of an OKX connection fails (the
\* listing request errors or is answered without success), the run leaves
\* that connection: it sleeps the reconnect delay, after which it connects and
\* performs the handshake again.
C17_FailedHandshakeReconnects ==
    [][\A k \in 1..Len(runs["okx"]) : \A resp \in SwapResponses :
          (Subscribed(k, resp) /\ HandshakeFailed(resp))
              => /\ runs'["okx"][k].pc = "sleeping"
                 /\ runs'["okx"][k].timer = RECONNECT_DELAY]_vars

\* C18: when several callers call the spot get of one exchange while its
\* entry is stale or empty, at most one listing request for that exchange is
\* in flight at any time.
C18_OneRefreshInFlight ==
    \A e \in Exchanges :
        Cardinality({c \in DOMAIN calls :
                        calls[c].exch = e /\ calls[c].pc = "spot_fetch"}) <= 1

\* The store of a stream as the messages processed so far, each one to its
\* end, leave it: symbol key -> the entry of the item parsed last for it.
WholeStore(m, stream) ==
    [k \in DOMAIN lastParsed[m][stream] |->
        StreamEntry(m, stream, lastParsed[m][stream][k]).entry]

\* C19: get_snapshot never observes a half-applied message: the snapshot it
\* returns is built, in every field, from the state that a whole number of
\* processed messages leaves.
C19_SnapshotOfWholeMessages ==
    (returned.caller # "none" /\ returned.exch \in Monitors) =>
        LET m == returned.exch
            F == WholeStore(m, "funding")
            K == WholeStore(m, "ticker")
        IN returned.result =
             [sym \in {k \in DOMAIN F : returned.use_spot_filter => k \in returned.spot_symbols} |->
                [symbol |-> sym,
                 rate |-> F[sym].rate,
                 volume |-> IF sym \notin DOMAIN K THEN 0
                            ELSE IF m = "binance" THEN K[sym] ELSE K[sym].volume,
                 price |-> IF m = "binance" THEN F[sym].price
                           ELSE IF sym \in DOMAIN K THEN K[sym].price ELSE 0,
                 next_funding |-> F[sym].next_funding]]

\* A call of get_snapshot returned two symbols, one of them with its ticker.
C19_Witness ==
    /\ returned.exch = "binance"
    /\ Cardinality(DOMAIN returned.result) > 1
    /\ \E sym \in DOMAIN returned.result : returned.result[sym].volume # 0

\* C20: every symbol key a spot refresh stores, for each of the four
\* exchanges, comes from an instrument of the listing that is quoted in USDT
\* and actively tradable: an instrument that is not actively tradable never
\* gives a key of the cached set.
C20_StoredKeysUsdtAndActive ==
    [][\A c \in DOMAIN calls : \A resp \in SpotResponsesOf[calls[c].exch] :
          (SpotResponse(c, resp) /\ ~SpotParse(calls[c].exch, resp).raise)
              => \A key \in SPOT_SYMBOL_CACHE'[calls[c].exch] :
                    \E i \in 1..Len(resp.list) :
                        /\ resp.list[i].quote = USDT
                        /\ resp.list[i].status = ActiveStatus(calls[c].exch)
                        /\ key = CcxtSymbol(resp.list[i].base)]_vars

----------------------------------------------------------------------------
(* Claims about the age of a cached set and the independence of the caches *)

\* The age of the entry of e for a get called now.
Age(e) == clock - SPOT_SYMBOL_LAST_FETCH[e]

\* The refresh succeeded: the listing carries the success code and every
\* instrument of it has its fields.
Refreshed(e, resp) == ~SpotFailure(resp) /\ ~SpotParse(e, resp).raise

\* The get caller c starts in this step requests the listing, once.
Refreshes(c) == calls'[c].pc = "spot_fetch" /\ calls'[c].nSpotReq = 1

\* The get caller c starts in this step returns the cached set, no request made.
Reuses(c) ==
    /\ calls'[c].pc = "spot_done"
    /\ calls'[c].nSpotReq = 0
    /\ calls'[c].spot_symbols = SPOT_SYMBOL_CACHE[calls[c].exch]

\* When the response of the one request of a get is a success, the get
\* returns the set built from the listing, and that set is the cached one.
ReturnsFetched ==
    \A c \in Callers : \A resp \in SpotResponsesOf[calls[c].exch] :
        (SpotResponse(c, resp) /\ Refreshed(calls[c].exch, resp))
            => /\ calls[c].nSpotReq = 1 /\ calls'[c].nSpotReq = 1
               /\ calls'[c].pc = "spot_done"
               /\ calls'[c].spot_symbols = SpotLoop(calls[c].exch, resp.list, 1, {}).symbols
               /\ SPOT_SYMBOL_CACHE'[calls[c].exch] = calls'[c].spot_symbols

\* C21 as stated: a spot-symbol get made when the age of the entry is 3600
\* seconds or more attempts exactly one refresh request, and on success it
\* returns the newly fetched set; an entry of age below 3600 seconds is reused,
\* whatever set it holds.
C21_AgeDecides ==
    [][/\ \A c \in Callers :
            SpotCall(c) => IF Age(calls[c].exch) >= SPOT_SYMBOL_TTL
                           THEN Refreshes(c) ELSE Reuses(c)
       /\ ReturnsFetched]_vars

\* C21 as amended: a spot-symbol get made when the age of the entry is 3600
\* seconds or more, or when the cached set is empty, attempts exactly one
\* refresh request, and on success it returns the newly fetched set; a
\* non-empty set of age below 3600 seconds is reused.
C21_AgeAndContentDecide ==
    [][/\ \A c \in Callers :
            SpotCall(c) =>
                IF Age(calls[c].exch) >= SPOT_SYMBOL_TTL
                     \/ SPOT_SYMBOL_CACHE[calls[c].exch] = {}
                THEN Refreshes(c) ELSE Reuses(c)
       /\ ReturnsFetched]_vars

\* A get made when the entry was 3600 seconds old or older has returned the
\* non-empty set it fetched, stored with the time of that get.
C21_Witness ==
    \E c \in Callers :
        /\ calls[c].pc = "spot_done" /\ calls[c].refresh = "ok"
        /\ calls[c].nSpotReq = 1 /\ calls[c].within = NoRefresh
        /\ calls[c].spot_symbols # {}
        /\ SPOT_SYMBOL_CACHE[calls[c].exch] = calls[c].spot_symbols
        /\ SPOT_SYMBOL_LAST_FETCH[calls[c].exch] >= StartTime + SPOT_SYMBOL_TTL

\* C22: the four spot caches are independent: a step of the get a task runs
\* for one exchange (the call, the refresh that succeeds or fails, the return)
\* leaves the cached set and the timestamp of every other exchange unchanged.
C22_CachesIndependent ==
    [][\A c \in Callers :
          calls'[c] # calls[c]
              => \A o \in Exchanges \ {calls[c].exch} :
                    /\ SPOT_SYMBOL_CACHE'[o] = SPOT_SYMBOL_CACHE[o]
                    /\ SPOT_SYMBOL_LAST_FETCH'[o] = SPOT_SYMBOL_LAST_FETCH[o]]_vars

\* A get of one exchange has completed a refresh while another exchange holds
\* the non-empty set and the earlier timestamp its own refresh stored.
C22_Witness ==
    \E c \in Callers : \E o \in Exchanges \ {calls[c].exch} :
        /\ calls[c].pc = "spot_done" /\ calls[c].refresh = "ok"
        /\ SPOT_SYMBOL_CACHE[calls[c].exch] # {}
        /\ SPOT_SYMBOL_CACHE[o] # {}
        /\ SPOT_SYMBOL_CACHE[o] # SPOT_SYMBOL_CACHE[calls[c].exch]
        /\ lastRefresh[o] = [set |-> SPOT_SYMBOL_CACHE[o], at |-> SPOT_SYMBOL_LAST_FETCH[o]]
        /\ SPOT_SYMBOL_LAST_FETCH[o] < SPOT_SYMBOL_LAST_FETCH[calls[c].exch]

----------------------------------------------------------------------------
(* Claims about the ranking and the threshold alerts *)

\* get_top_funding_rates has returned.
Ranked == job.fn = "top" /\ job.pc = "done"

\* The positions of the snapshot's entries of the sign asked for: strictly
\* positive rates, or strictly negative ones.
OfSign(funding_rates, positive) ==
    {i \in 1..Len(funding_rates) :
        IF positive THEN funding_rates[i].rate > 0 ELSE funding_rates[i].rate < 0}

\* The position of a symbol in the iteration order of the snapshot.
Position(funding_rates, symbol) ==
    CHOOSE i \in 1..Len(funding_rates) : funding_rates[i].symbol = symbol

\* C23: for every snapshot and both values of positive, get_top_funding_rates
\* returns at most 5 entries, each an entry of the snapshot of the requested
\* sign (rate > 0 when positive, rate < 0 when not), in non-increasing order
\* of the absolute rate, and they are the largest of that sign: min(5, number
\* of such entries) different ones, none smaller than one left out.
C23_TopOfRequestedSign ==
    Ranked =>
        LET f == job.funding_rates
            top == job.top
            S == OfSign(f, job.positive)
            in == {Position(f, top[p][1]) : p \in 1..Len(top)}
        IN /\ Len(top) <= TOP_N
           /\ \A p \in 1..Len(top) :
                \E i \in S : top[p] = <<f[i].symbol, f[i].rate>>
           /\ \A p, q \in 1..Len(top) : p < q => Abs(top[p][2]) >= Abs(top[q][2])
           /\ Cardinality(in) = Len(top)
           /\ Len(top) = IF Cardinality(S) < TOP_N THEN Cardinality(S) ELSE TOP_N
           /\ \A i \in S \ in : \A p \in 1..Len(top) : Abs(f[i].rate) <= Abs(top[p][2])

\* C24: in the result of get_top_funding_rates, entries of equal absolute
\* rate stand in the order in which the snapshot iterates them: the
\* descending sort is stable.
C24_TiesKeepSnapshotOrder ==
    Ranked =>
        \A p, q \in 1..Len(job.top) :
            (p < q /\ Abs(job.top[p][2]) = Abs(job.top[q][2]))
                => Position(job.funding_rates, job.top[p][1])
                     < Position(job.funding_rates, job.top[q][1])

\* Five entries were returned out of more of the sign asked for, with a tie
\* among the returned ones behind a greater rate that came later in the
\* snapshot.
C24_Witness ==
    /\ Ranked
    /\ Len(job.top) = TOP_N
    /\ Cardinality(OfSign(job.funding_rates, job.positive)) > TOP_N
    /\ \E p, q \in 1..Len(job.top) : p < q /\ job.top[p][2] = job.top[q][2]
    /\ \E p, q \in 1..Len(job.top) :
          /\ p < q /\ Abs(job.top[p][2]) > Abs(job.top[q][2])
          /\ Position(job.funding_rates, job.top[p][1])
               > Position(job.funding_rates, job.top[q][1])

\* The loop of check_threshold_alerts has run.
Alerted == job.fn = "alerts" /\ job.pc = "done"

\* The alerts of the result for a symbol of an exchange, by position.
AlertsFor(exchange_name, symbol) ==
    {a \in 1..Len(job.alerts) :
        job.alerts[a].exchange = exchange_name /\ job.alerts[a].symbol = symbol}

\* The entries <<e, i>> of all_rates with |rate| >= threshold and
\* volume >= volume_filter.
Selected ==
    {x \in {<<e, i>> : e \in 1..Len(job.all_rates), i \in 1..Cardinality(Keys)} :
        /\ x[2] <= Len(job.all_rates[x[1]][2])
        /\ Abs(job.all_rates[x[1]][2][x[2]].rate) >= job.threshold
        /\ job.all_rates[x[1]][2][x[2]].volume >= job.volume_filter}

\* C25: the alerts are exactly the entries with |rate| >= threshold and
\* volume >= volume_filter: each such entry gives one alert, carrying its
\* rate, price and volume, an entry that fails either test gives none, and
\* there is no other alert; values equal to the threshold or to the filter
\* are included.
C25_AlertsExactlySelected ==
    Alerted =>
        /\ Len(job.alerts) = Cardinality(Selected)
        /\ \A e \in 1..Len(job.all_rates) : \A i \in 1..Len(job.all_rates[e][2]) :
              LET data == job.all_rates[e][2][i]
                  for == AlertsFor(job.all_rates[e][1], data.symbol)
              IN IF <<e, i>> \in Selected
                 THEN /\ Cardinality(for) = 1
                      /\ \A a \in for :
                            /\ job.alerts[a].rate = data.rate
                            /\ job.alerts[a].price = data.price
                            /\ job.alerts[a].volume = data.volume
                 ELSE for = {}

\* With the volume filter at 1000000 and the threshold at 1000, an entry of
\* exactly that rate and volume gave an alert, and the other entry of the
\* snapshot, short of the threshold or of the filter, gave none.
C25_Witness ==
    /\ Alerted
    /\ job.volume_filter = 1000000
    /\ Len(job.all_rates) = 1 /\ Len(job.all_rates[1][2]) = 2
    /\ Len(job.alerts) = 1
    /\ job.alerts[1].rate = job.threshold /\ job.alerts[1].volume = job.volume_filter

\* The entry an alert was made from.
EntryOf(alert) ==
    LET e == CHOOSE e \in 1..Len(job.all_rates) : job.all_rates[e][1] = alert.exchange
        i == CHOOSE i \in 1..Len(job.all_rates[e][2]) :
                job.all_rates[e][2][i].symbol = alert.symbol
    IN job.all_rates[e][2][i]

\* C26: the countdown of an alert is never negative. For an entry with a
\* next funding time it is the whole hours and the whole minutes (0..59) of
\* max(0, next funding time - now), so a time in the past gives 0 hours 0
\* minutes; for an entry without one (0, as in every entry of Bitget) it is
\* the unknown marker, not zero.
C26_CountdownClampedOrUnknown ==
    /\ \A item \in RestItems("bitget") :
          RestEntry("bitget", item, RestKey("bitget", item).key).entry.next_funding = 0
    /\ Alerted =>
          \A a \in 1..Len(job.alerts) :
              LET c == job.alerts[a].countdown
                  next_funding == EntryOf(job.alerts[a]).next_funding
                  remaining == IF next_funding > job.now THEN next_funding - job.now ELSE 0
                  whole == c.hours * MS_PER_HOUR + c.minutes * MS_PER_MINUTE
              IN IF next_funding = 0 \/ job.alerts[a].exchange = "bitget"
                 THEN c = UNKNOWN /\ ~c.known
                 ELSE /\ c.known
                      /\ c.hours >= 0 /\ c.minutes \in 0..59
                      /\ whole <= remaining /\ remaining < whole + MS_PER_MINUTE
                      /\ next_funding <= job.now => (c.hours = 0 /\ c.minutes = 0)

\* The alerts hold a countdown of 3 hours 24 minutes, one of 0 hours 0
\* minutes for a funding time in the past, and an unknown one for Bitget.
C26_Witness ==
    /\ Alerted
    /\ \E a, b, c \in 1..Len(job.alerts) :
          /\ job.alerts[a].countdown = [known |-> TRUE, hours |-> 3, minutes |-> 24]
          /\ job.alerts[b].countdown = [known |-> TRUE, hours |-> 0, minutes |-> 0]
          /\ EntryOf(job.alerts[b]).next_funding < job.now
          /\ job.alerts[c].exchange = "bitget"
          /\ job.alerts[c].countdown = UNKNOWN

----------------------------------------------------------------------------
(* Claims about the symbol keys *)

\* B/USDT:USDT, character by character.
CanonicalKey(base) == base \o <<"/", "U", "S", "D", "T", ":", "U", "S", "D", "T">>

\* C27: for every base asset B the spellings BUSDT of Binance and Bybit,
\* BUSDT_UMCBL of Bitget and B-USDT-SWAP of OKX are all given the key
\* B/USDT:USDT, none of them is passed over, the spot caches store the same
\* key for base B, and computing the key of the same raw symbol again gives
\* the same key.
C27_OneKeyForAllSpellings ==
    job.fn = "symbol" =>
        /\ \A e \in DOMAIN job.keys :
              /\ ~job.keys[e].skip
              /\ job.keys[e].key = CanonicalKey(job.base)
              /\ Normalized(e, Spelling(e, job.base)) = job.keys[e]
        /\ \A e, o \in DOMAIN job.keys : job.keys[e].key = job.keys[o].key
        /\ \A e \in DOMAIN job.spot : job.spot[e] = {CanonicalKey(job.base)}
        /\ \A e \in DOMAIN job.keys : \A o \in DOMAIN job.spot : job.keys[e].key \in job.spot[o]

\* The four exchanges have met the asset USDT, whose perpetual is spelled
\* USDTUSDT, USDTUSDT_UMCBL and USDT-USDT-SWAP, and the four spot listings
\* have listed it.
C27_Witness ==
    /\ job.fn = "symbol"
    /\ MaxBase >= 4 => job.base = USDT
    /\ MaxBase < 4 => job.base = <<"1", "U", "S">>
    /\ DOMAIN job.keys = Exchanges
    /\ DOMAIN job.spot = Exchanges
    /\ job.keys["bitget"].key = CanonicalKey(job.base)

----------------------------------------------------------------------------
(* Claims about the snapshots of the monitors *)

\* C28: when the Binance stream delivered a mark-price item for a raw symbol S
\* ending in USDT with funding fraction r and price p, a later get_snapshot
\* with the filter disabled holds an entry under the key of S (S without its
\* last four characters, then /USDT:USDT) whose rate is r x 100 and whose
\* price is p, r and p being those of the item stored last for S.
C28_MarkPriceItemInSnapshot ==
    (returned # NoReturn /\ returned.exch = "binance" /\ ~returned.use_spot_filter) =>
        \A k \in DOMAIN lastParsed["binance"]["funding"] :
            LET item == lastParsed["binance"]["funding"][k]
            IN /\ EndsWith(item.s, USDT)
               /\ k = CanonicalKey(DropLast(item.s, 4))
               /\ k \in DOMAIN returned.result
               /\ returned.result[k].symbol = k
               /\ item.r.t = "num" => returned.result[k].rate = item.r.n * 100
               /\ item.p.t = "num" => returned.result[k].price = item.p.n

\* The item BTCUSDT with r = 5 and p = 65000 was stored last for its symbol,
\* and an unfiltered get_snapshot returned BTC/USDT:USDT with rate 500 and
\* price 65000.
C28_Witness ==
    /\ returned # NoReturn /\ returned.exch = "binance" /\ ~returned.use_spot_filter
    /\ CanonicalKey(BTC) \in DOMAIN lastParsed["binance"]["funding"]
    /\ lastParsed["binance"]["funding"][CanonicalKey(BTC)]
          = StreamItem(BTC \o USDT, Num(5), Num(65000), Absent, Num(1000))
    /\ returned.result[CanonicalKey(BTC)].rate = 500
    /\ returned.result[CanonicalKey(BTC)].price = 65000

\* What the holder of the response of exchange e reads in it: the contents
\* the dict was given in the call or, were it an object of the monitor, what
\* the monitor holds now.
Held(e) == IF agg.object[e] = "new" THEN agg.collected[e] ELSE FundingStore(e)

\* The same for the result of get_all_funding_rates, whose values are the
\* responses themselves (results[exch] = responses[idx]).
HeldResult(e) == IF agg.object[e] = "new" THEN agg.results[e] ELSE FundingStore(e)

C30_BadMessageDroppedWhole ==
    [][dropped' =>
          /\ mark_data' = mark_data
          /\ ticker_volume' = ticker_volume
          /\ funding_data' = funding_data
          /\ ticker_data' = ticker_data]_vars

----------------------------------------------------------------------------
(* Claims about overlapping refreshes of the spot-symbol cache *)

\* C31: a refresh replaces the cached set and its timestamp together: in
\* every state another task can observe (the states between two steps), the
\* cached set and the timestamp of an exchange are those of one and the same
\* refresh, the one that stored last, or both are as the process started;
\* also when several refreshes of the exchange overlap.
C31_SetAndStampOfOneRefresh ==
    \A e \in Exchanges :
        IF lastRefresh[e] = NoRefresh
        THEN SPOT_SYMBOL_CACHE[e] = {} /\ SPOT_SYMBOL_LAST_FETCH[e] = 0
        ELSE /\ SPOT_SYMBOL_CACHE[e] = lastRefresh[e].set
             /\ SPOT_SYMBOL_LAST_FETCH[e] = lastRefresh[e].at

\* Two refreshes of one exchange overlap: the one that started later has
\* stored its set and its timestamp, the one that started earlier still
\* awaits its response.
C31_Witness ==
    \E c \in DOMAIN calls :
        /\ calls[c].pc = "spot_fetch"
        /\ SPOT_SYMBOL_CACHE[calls[c].exch] # {}
        /\ calls[c].now < SPOT_SYMBOL_LAST_FETCH[calls[c].exch]
        /\ lastRefresh[calls[c].exch].at = SPOT_SYMBOL_LAST_FETCH[calls[c].exch]

\* C33 as stated: the stored timestamp of the spot cache of an exchange
\* never decreases, under every interleaving of overlapping refreshes of the
\* exchange: a refresh that started earlier and finished later does not
\* overwrite what a refresh that started later has stored.
C33_StampNeverDecreases ==
    [][\A e \in Exchanges :
          SPOT_SYMBOL_LAST_FETCH'[e] >= SPOT_SYMBOL_LAST_FETCH[e]]_vars

----------------------------------------------------------------------------
(* Claims about the collectors of a call of get_all_funding_rates *)

\* A step runs code of the collector of exchange c.
Runs(c) == calls'[c] # calls[c] \/ returned'.caller = c

\* C32: for every list of known exchanges, get_all_funding_rates holds one
\* coroutine for each exchange asked for and none for another, a collector
\* runs only until it has returned its response (so each is invoked once),
\* the call returns only when every collector has returned, and the keys of
\* its result are exactly the exchanges asked for.
C32_EachCollectorOnceThenResult ==
    [][/\ agg'.pc \in {"gather", "done"} =>
             \A e \in Exchanges :
                 Cardinality({idx \in DOMAIN agg'.tasks : agg'.tasks[idx] = e})
                     = IF e \in agg'.exchanges THEN 1 ELSE 0
       /\ \A c \in DOMAIN calls \cap DOMAIN calls' :
             Runs(c) => /\ Pending(c)
                        /\ c \in agg.exchanges
                        /\ c \notin DOMAIN agg.collected
       /\ (agg.pc = "gather" /\ agg'.pc = "done") =>
             /\ DOMAIN agg.collected = agg.exchanges
             /\ \A c \in DOMAIN calls : calls[c].pc = "idle"
       /\ agg'.pc = "done" =>
             /\ DOMAIN agg'.results = agg'.exchanges
             /\ \A e \in agg'.exchanges : agg'.results[e] = agg'.collected[e]]_vars

\* A call for the four exchanges has returned a result with the four keys.
C32_Witness ==
    /\ agg.pc = "done"
    /\ agg.exchanges = Exchanges
    /\ DOMAIN agg.results = Exchanges
    /\ Len(agg.tasks) = 4

----------------------------------------------------------------------------
(* Claims about what the monitors keep *)

\* No run of monitor m iterates a connection.
Offline(m) == \A k \in 1..Len(runs[m]) : runs[m][k].pc # "streaming"

\* C34: the per-symbol state of a monitor only grows: no step (a disconnect,
\* a reconnect, a malformed message, a call of get_snapshot) removes a symbol
\* from it, it does not change at all while the monitor is disconnected or
\* reconnecting, and a get_snapshot that returns then holds the entries of
\* the items stored last.
C34_MonitorStateOnlyGrows ==
    [][\A m \in Monitors :
          /\ DOMAIN FundingStore(m) \subseteq DOMAIN FundingStore(m)'
          /\ DOMAIN TickerStore(m) \subseteq DOMAIN TickerStore(m)'
          /\ Offline(m) => /\ FundingStore(m)' = FundingStore(m)
                           /\ TickerStore(m)' = TickerStore(m)
          /\ (returned'.exch = m /\ Offline(m)') =>
                /\ DOMAIN returned'.result =
                      {k \in DOMAIN lastParsed'[m]["funding"] :
                          returned'.use_spot_filter => k \in returned'.spot_symbols}
                /\ \A k \in DOMAIN returned'.result :
                      /\ k \in DOMAIN FundingStore(m)
                      /\ returned'.result[k].rate
                            = FundingEntry(m, lastParsed'[m]["funding"][k]).entry.rate]_vars

\* The connection of a monitor has ended, its run sleeps before it connects
\* again, and get_snapshot has returned the entries received before.
C34_Witness ==
    /\ returned.exch \in Monitors
    /\ returned.result # EmptyDict
    /\ \E k \in 1..Len(runs[returned.exch]) :
          runs[returned.exch][k].pc = "sleeping" /\ runs[returned.exch][k].retry
    /\ Offline(returned.exch)

\* C35: a symbol is in the snapshot of a monitor only if a funding item for
\* it (Binance mark price, OKX funding rate) has been received and stored: a
\* symbol for which only ticker items have arrived is absent, with the spot
\* filter enabled or disabled.
C35_OnlyFundedSymbols ==
    returned.exch \in Monitors =>
        LET m == returned.exch
        IN /\ DOMAIN returned.result \subseteq DOMAIN lastParsed[m]["funding"]
           /\ \A k \in DOMAIN lastParsed[m]["ticker"] :
                 k \notin DOMAIN lastParsed[m]["funding"] => k \notin DOMAIN returned.result

\* An unfiltered get_snapshot has returned while the monitor holds the ticker
\* of a symbol and no funding item of it: the symbol is left out.
C35_Witness ==
    /\ returned.exch \in Monitors
    /\ ~returned.use_spot_filter
    /\ \E k \in DOMAIN TickerStore(returned.exch) :
          /\ k \notin DOMAIN FundingStore(returned.exch)
          /\ k \notin DOMAIN returned.result

----------------------------------------------------------------------------
(* Claims about the instruments subscribed on an OKX connection *)

\* The USDT-margined perpetual instruments a listing response names; none
\* when the listing failed.
ListedFor(resp) ==
    IF HandshakeFailed(resp) \/ SwapLoop(resp.list, 1, {}).raise THEN {}
    ELSE SwapLoop(resp.list, 1, {}).symbols

\* C36 as stated: on every OKX connection, each reconnection included, the
\* instruments subscribed on the connection are exactly the USDT-margined
\* perpetuals of the listing fetched for that connection: an instrument no
\* longer listed is not subscribed again, and a failed listing leads to no
\* subscription to a set of an earlier connection.
C36_SubscribedIsListed ==
    [][\A k \in 1..Len(runs["okx"]) : \A resp \in SwapResponses :
          Subscribed(k, resp) => runs'["okx"][k].wire = ListedFor(resp)]_vars

----------------------------------------------------------------------------
(* Claims about the jobs of a user *)

\* The scheduled jobs of a user that run the given callback.
JobsOf(user_id, callback) ==
    {i \in 1..Len(job.queue) :
        job.queue[i].chat_id = user_id /\ job.queue[i].callback = callback}

\* C37: after any sequence of /start commands, at most one periodic-report
\* job and at most one threshold-check job are scheduled for a user: a /start
\* removes the jobs of the user's two names before it adds one new job of
\* each kind, so the jobs of a user are the two of the user's last /start.
C37_OneJobOfEachKind ==
    job.fn = "start" =>
        /\ \A user_id \in UserIds :
              /\ Cardinality(JobsOf(user_id, "send_periodic_update")) <= 1
              /\ Cardinality(JobsOf(user_id, "check_threshold_alerts")) <= 1
              /\ \A i \in JobsOf(user_id, "send_periodic_update") :
                    /\ job.queue[i].name = JobName("periodic", user_id)
                    /\ \E k \in JobsOf(user_id, "check_threshold_alerts") :
                          job.queue[k].id = job.queue[i].id + 1
        /\ \A i, k \in 1..Len(job.queue) :
              i # k => job.queue[i].name # job.queue[k].name
        /\ job.starts > 0 =>
              \E i \in 1..Len(job.queue) : job.queue[i].id = 2 * job.starts

\* The two users have sent /start four times or more between them: four jobs
\* are scheduled, those of the fourth /start or a later one among them, and a
\* job has run.
C37_Witness ==
    /\ job.fn = "start"
    /\ job.starts >= 4
    /\ Len(job.queue) = 4
    /\ \E user_id \in UserIds :
          \A i \in JobsOf(user_id, "send_periodic_update") : job.queue[i].id >= 7
    /\ job.fired # 0

====
